---- MODULE Spec2Model ----
(***************************************************************************)
(* Model of the static-site build pipeline of scripts/build_site.py.       *)
(*                                                                         *)
(* Representation of Python values:                                        *)
(*   - a str is a sequence of one-character strings (a "text"), so that    *)
(*     the character-level functions (lower, strip, re.sub) are computed   *)
(*     and not assumed; literal fragments that the code only concatenates  *)
(*     are kept as one chunk, e.g. <<"index.html">>;                       *)
(*   - a path or URL is the sequence of its "/"-separated segments, each   *)
(*     segment a text; a trailing "/" is a final empty segment;            *)
(*   - a dict is a function whose DOMAIN is the set of keys present;       *)
(*   - a YAML value is a record tagged by its Python type in field t;      *)
(*   - None is the record [t |-> "null"];                                  *)
(*   - a datetime is the day number of January 2024 it falls on (the       *)
(*     inputs of the model carry no time of day).                          *)
(***************************************************************************)
EXTENDS Integers, Sequences, FiniteSets, TLC

(***************************************************************************)
(* Bounds of the model.                                                    *)
(***************************************************************************)
\* longest text given to slugify in the function-level specification
MaxSlugLen == 3
\* number of source files of a directory with varied metadata
MaxRich == 2
\* number of source files of an archive of plain, well-formed files
MaxDocs == 17
\* deepest output page given to rel_root in the function-level specification
MaxDepth == 3
\* number of builds run one after the other over the same tree
MaxBuilds == 2
\* longest body text enumerated in full
MaxBodyLen == 3
\* longest rendered body enumerated in full
MaxHtmlLen == 4
\* largest value of MAX_ATTEMPTS set in the environment
MaxAttempts == 3

(***************************************************************************)
(* Program constants.                                                      *)
(***************************************************************************)
PAGE_SIZE == 8

SITE_BASE == <<"https://example.com">>

SITE_default_image == <<<<"assets">>, <<"images">>, <<"chip.svg">>>>

SITE_author == <<"Diego">>

None == [t |-> "null"]

(***************************************************************************)
(* str methods and re.sub calls used by the pipeline.                      *)
(***************************************************************************)
UpperChars == <<"A","B","C","D","E","F","G","H","I","J","K","L","M",
                "N","O","P","Q","R","S","T","U","V","W","X","Y","Z">>

LowerChars == <<"a","b","c","d","e","f","g","h","i","j","k","l","m",
                "n","o","p","q","r","s","t","u","v","w","x","y","z">>

DigitChars == <<"0","1","2","3","4","5","6","7","8","9">>

Range(s) == {s[i] : i \in DOMAIN s}

WhitespaceChars == {" ", "\t", "\n"}

\* str.lower() on one character
LowerChar(c) ==
    IF \E i \in DOMAIN UpperChars : UpperChars[i] = c
    THEN LowerChars[CHOOSE i \in DOMAIN UpperChars : UpperChars[i] = c]
    ELSE c

\* str.lower()
Lower(text) == [i \in DOMAIN text |-> LowerChar(text[i])]

RECURSIVE LStripChars(_, _)
LStripChars(text, chars) ==
    IF text # <<>> /\ Head(text) \in chars
    THEN LStripChars(Tail(text), chars)
    ELSE text

RECURSIVE RStripChars(_, _)
RStripChars(text, chars) ==
    IF text # <<>> /\ text[Len(text)] \in chars
    THEN RStripChars(SubSeq(text, 1, Len(text) - 1), chars)
    ELSE text

\* str.strip(chars)
StripChars(text, chars) == RStripChars(LStripChars(text, chars), chars)

\* str.strip()
Strip(text) == StripChars(text, WhitespaceChars)

\* the characters kept by re.sub(r"[^a-z0-9\\s-]", "", text): in a raw
\* string the class reads a-z, 0-9, an escaped backslash, the letter s
\* and '-'; whitespace is not in it
SlugKeptChars == Range(LowerChars) \cup Range(DigitChars) \cup {"\\", "-"}

\* re.sub(r"[^a-z0-9\\s-]", "", text)
RemoveDisallowed(text) == SelectSeq(text, LAMBDA c : c \in SlugKeptChars)

\* length of the run of c at the head of text
RECURSIVE RunLen(_, _)
RunLen(text, c) ==
    IF text # <<>> /\ Head(text) = c THEN 1 + RunLen(Tail(text), c) ELSE 0

\* re.sub(r"\\s+", "-", text): the raw pattern is a literal backslash
\* followed by one or more letters s
RECURSIVE ReplaceSpaceRuns(_)
ReplaceSpaceRuns(text) ==
    IF text = <<>> THEN <<>>
    ELSE IF Head(text) = "\\" /\ RunLen(Tail(text), "s") > 0
         THEN <<"-">> \o ReplaceSpaceRuns(
                  SubSeq(text, 2 + RunLen(Tail(text), "s"), Len(text)))
         ELSE <<Head(text)>> \o ReplaceSpaceRuns(Tail(text))

\* re.sub(r"-+", "-", text)
RECURSIVE CollapseHyphens(_)
CollapseHyphens(text) ==
    IF text = <<>> THEN <<>>
    ELSE IF Head(text) = "-"
         THEN <<"-">> \o CollapseHyphens(
                  SubSeq(text, 1 + RunLen(text, "-"), Len(text)))
         ELSE <<Head(text)>> \o CollapseHyphens(Tail(text))

slugify(text) ==
    StripChars(
        CollapseHyphens(ReplaceSpaceRuns(RemoveDisallowed(Strip(Lower(text))))),
        {"-"})

(***************************************************************************)
(* Python values read from the metadata header.                            *)
(***************************************************************************)
PyStr(text) == [t |-> "str", v |-> text]

PyDate(day) == [t |-> "date", v |-> day]

PyList(items) == [t |-> "list", v |-> items]

PyDict(d) == [t |-> "dict", v |-> d]

\* outcome of yaml.safe_load on a header that is not valid YAML
YamlError == [t |-> "error"]

EmptyDict == <<>>

\* digits of a two-digit field, as strftime("%d") prints it
TwoDigits(n) == <<DigitChars[(n \div 10) + 1], DigitChars[(n % 10) + 1]>>

\* datetime.strftime("%Y-%m-%d") for a day of January 2024
strftime_Ymd(day) == <<"2","0","2","4","-","0","1","-">> \o TwoDigits(day)

\* str(value)
Str(value) ==
    CASE value.t = "str"  -> value.v
      [] value.t = "null" -> <<"N","o","n","e">>
      [] value.t = "date" -> strftime_Ymd(value.v)
      [] OTHER            -> <<"<", value.t, ">">>

\* truth value of a Python object (as used by "or" and "if")
Truthy(value) ==
    CASE value.t = "null" -> FALSE
      [] value.t = "str"  -> value.v # <<>>
      [] value.t = "list" -> value.v # <<>>
      [] value.t = "dict" -> DOMAIN value.v # {}
      [] OTHER            -> TRUE

\* dict.get(key, default)
Get(d, key, default) == IF key \in DOMAIN d THEN d[key] ELSE default

IsDigit(c) == c \in Range(DigitChars)

DigitVal(c) == (CHOOSE i \in DOMAIN DigitChars : DigitChars[i] = c) - 1

\* datetime.fromisoformat(text), on the calendar of the model: a text of
\* the form 2024-01-DD with 01 <= DD <= 31 is that day, any other text of
\* the input sets raises ValueError
fromisoformat(text) ==
    IF /\ Len(text) = 10
       /\ SubSeq(text, 1, 8) = <<"2","0","2","4","-","0","1","-">>
       /\ IsDigit(text[9]) /\ IsDigit(text[10])
       /\ 10 * DigitVal(text[9]) + DigitVal(text[10]) \in 1..31
    THEN [ok |-> TRUE, date |-> 10 * DigitVal(text[9]) + DigitVal(text[10])]
    ELSE [ok |-> FALSE, date |-> 0]

\* parse_date falling back to the first day of the calendar
parse_dateLenient(value) ==
    IF value.t = "date"
    THEN [ok |-> TRUE, date |-> value.v]
    ELSE IF fromisoformat(Str(value)).ok THEN fromisoformat(Str(value))
    ELSE [ok |-> TRUE, date |-> 1]

parse_date(value) ==
    IF value.t = "date"
    THEN [ok |-> TRUE, date |-> value.v]
    ELSE fromisoformat(Str(value))

\* parse_frontmatter: a source file is given by whether its text starts
\* with the "---" marker and has the closing one (len(parts) >= 3), by
\* what yaml.safe_load makes of the text between them, by the body text
\* that parse_frontmatter returns and by the HTML that markdown.markdown
\* makes of that body
parse_frontmatter(file) ==
    IF file.delimited
    THEN IF file.yaml.t = "error"
         THEN [raised |-> "YAMLError", fm |-> PyDict(EmptyDict)]
         ELSE [raised |-> "none",
               fm |-> IF Truthy(file.yaml) THEN file.yaml
                      ELSE PyDict(EmptyDict)]
    ELSE [raised |-> "none", fm |-> PyDict(EmptyDict)]

\* str.split(","): the pieces between commas
RECURSIVE SplitComma(_, _)
SplitComma(text, piece) ==
    IF text = <<>> THEN <<piece>>
    ELSE IF Head(text) = ","
         THEN <<piece>> \o SplitComma(Tail(text), <<>>)
         ELSE SplitComma(Tail(text), Append(piece, Head(text)))

\* title = str(fm.get("title", "")).strip()
TitleOf(fm) == Strip(Str(Get(fm, "title", PyStr(<<>>))))

\* slug = str(fm.get("slug") or slugify(title) or md_path.stem)
SlugOf(fm, title, stem) ==
    IF Truthy(Get(fm, "slug", None)) THEN Str(fm["slug"])
    ELSE IF slugify(title) # <<>> THEN slugify(title)
    ELSE stem

\* tags_raw, made a list of Python values (lines 105-107)
TagsRaw(fm) ==
    LET raw == IF Truthy(Get(fm, "tags", None)) THEN fm["tags"]
               ELSE PyList(<<>>)
    IN  IF raw.t = "str"
        THEN LET pieces == SplitComma(raw.v, <<>>)
             IN  [i \in DOMAIN pieces |-> PyStr(Strip(pieces[i]))]
        ELSE raw.v

\* tags (lines 108-109)
TagsOf(fm) ==
    LET raw  == TagsRaw(fm)
        kept == SelectSeq(raw, LAMBDA x : Strip(Str(x)) # <<>>)
        slugs == [i \in DOMAIN kept |-> slugify(Str(kept[i]))]
    IN  SelectSeq(slugs, LAMBDA x : x # <<>>)

\* cover_image = str(fm.get("cover_image") or SITE["default_image"])
CoverImageOf(fm) ==
    IF Truthy(Get(fm, "cover_image", None)) THEN <<Str(fm["cover_image"])>>
    ELSE SITE_default_image

\* author = str(fm.get("author") or SITE["author"])
AuthorOf(fm) ==
    IF Truthy(Get(fm, "author", None)) THEN Str(fm["author"])
    ELSE SITE_author

\* the characters \w matches in the texts of the model
WordChars ==
    Range(LowerChars) \cup Range(UpperChars) \cup Range(DigitChars) \cup {"_"}

\* len(re.findall(r"\\w+", text)): in the raw string the pattern is an
\* escaped backslash followed by w+, so a match is a backslash followed by
\* one or more letters w; a match starts at every backslash that has a w
\* right after it
CountMatches(text) ==
    Cardinality({i \in 1..(Len(text) - 1) :
                    text[i] = "\\" /\ text[i + 1] = "w"})

\* round(words / 200): Python rounds a half to the even neighbour
RoundDiv200(words) ==
    LET q == words \div 200
        r == words % 200
    IN  IF r < 100 THEN q
        ELSE IF r > 100 THEN q + 1
        ELSE IF q % 2 = 0 THEN q ELSE q + 1

\* estimate_read_time (lines 74-76)
estimate_read_time(text) ==
    LET words == CountMatches(text)
    IN  IF RoundDiv200(words) > 3 THEN RoundDiv200(words) ELSE 3

\* position of the first ">" of text at or after position i, 0 when none
FirstClose(text, i) ==
    IF \E j \in i..Len(text) : text[j] = ">"
    THEN CHOOSE j \in i..Len(text) :
             text[j] = ">" /\ \A m \in i..(j - 1) : text[m] # ">"
    ELSE 0

\* the pattern <[^>]+> matches at position i: a "<", one or more
\* characters other than ">", and the ">" after them
TagOpens(text, i) == text[i] = "<" /\ FirstClose(text, i + 1) >= i + 2

\* position k is consumed by a match that begins before it
InsideMatch(text, k) ==
    \E i \in 1..(k - 1) : TagOpens(text, i) /\ FirstClose(text, i + 1) >= k

\* re.sub(r"<[^>]+>", " ", text): the text is scanned from the left and
\* every match becomes one space
StripTags(text) ==
    LET units  == {k \in 1..Len(text) : ~InsideMatch(text, k)}
        nth(r) == CHOOSE k \in units :
                      Cardinality({u \in units : u < k}) = r - 1
    IN  [r \in 1..Cardinality(units) |->
            IF TagOpens(text, nth(r)) THEN " " ELSE text[nth(r)]]

\* str.split(): the maximal runs of characters that are not whitespace
SplitWords(text) ==
    LET starts   == {k \in 1..Len(text) :
                        /\ text[k] \notin WhitespaceChars
                        /\ (k = 1 \/ text[k - 1] \in WhitespaceChars)}
        nth(r)   == CHOOSE k \in starts :
                        Cardinality({u \in starts : u < k}) = r - 1
        endOf(k) == CHOOSE e \in k..Len(text) :
                        /\ \A m \in k..e : text[m] \notin WhitespaceChars
                        /\ (e = Len(text) \/ text[e + 1] \in WhitespaceChars)
    IN  [r \in 1..Cardinality(starts) |-> SubSeq(text, nth(r), endOf(nth(r)))]

\* " ".join(words), joining the two halves of the list
RECURSIVE JoinSpace(_)
JoinSpace(words) ==
    IF words = <<>> THEN <<>>
    ELSE IF Len(words) = 1 THEN words[1]
    ELSE LET h == Len(words) \div 2
         IN  JoinSpace(SubSeq(words, 1, h)) \o <<" ">>
             \o JoinSpace(SubSeq(words, h + 1, Len(words)))

\* excerpt (lines 110, 121-123)
ExcerptOf(fm, body_html) ==
    LET excerpt == Strip(Str(Get(fm, "excerpt", PyStr(<<>>))))
        words   == SplitWords(StripTags(body_html))
    IN  IF excerpt # <<>> THEN excerpt
        ELSE JoinSpace(SubSeq(words, 1, IF Len(words) < 32 THEN Len(words) ELSE 32))

\* one iteration of the loop of load_posts over the file at position md of
\* sorted(CONTENT_DIR.glob("*.md")): the file is skipped, raises, or yields
\* a post
LoadFile(file, md, stem, now) ==
    LET parsed == parse_frontmatter(file) IN
    IF parsed.raised # "none"
    THEN [kind |-> "raise", error |-> parsed.raised]
    ELSE IF parsed.fm.t # "dict"
    THEN [kind |-> "raise", error |-> "AttributeError"]
    ELSE LET fm    == parsed.fm.v
             title == TitleOf(fm)
             dv    == parse_date(Get(fm, "date", PyDate(now)))
         IN  IF title = <<>> THEN [kind |-> "skip"]
             ELSE IF ~dv.ok THEN [kind |-> "raise", error |-> "ValueError"]
             ELSE [kind |-> "post",
                   post |-> [title        |-> title,
                             slug         |-> SlugOf(fm, title, stem),
                             date         |-> dv.date,
                             date_str     |-> strftime_Ymd(dv.date),
                             excerpt      |-> ExcerptOf(fm, file.html),
                             cover_image  |-> CoverImageOf(fm),
                             author       |-> AuthorOf(fm),
                             tags         |-> TagsOf(fm),
                             content_html |-> file.html,
                             read_time    |-> estimate_read_time(file.body),
                             md           |-> md]]

\* an ascending stable sort read backwards: equal keys come out reversed
ReversedSortAsc(seq, key) ==
    LET n == Len(seq)
        rank(i) == 1 + Cardinality({j \in 1..n :
                         key[j] > key[i] \/ (key[j] = key[i] /\ j > i)})
    IN  [r \in 1..n |-> seq[CHOOSE i \in 1..n : rank(i) = r]]

\* list.sort(key=..., reverse=True) is stable: the element at position i
\* comes after every element with a greater key and after the elements
\* with an equal key that stood before it
StableSortDesc(seq, key) ==
    LET n == Len(seq)
        rank(i) == 1 + Cardinality({j \in 1..n :
                         key[j] > key[i] \/ (key[j] = key[i] /\ j < i)})
    IN  [r \in 1..n |-> seq[CHOOSE i \in 1..n : rank(i) = r]]

\* posts = sorted(posts, key=...)[::-1]
SortNewestFirstReversed(posts) ==
    ReversedSortAsc(posts, [i \in DOMAIN posts |-> posts[i].date])

\* posts.sort(key=lambda p: p["date"], reverse=True)
SortNewestFirst(posts) ==
    StableSortDesc(posts, [i \in DOMAIN posts |-> posts[i].date])

\* the loop of load_posts from file position i on, posts being the list
\* built so far; the first exception ends it.  (The test of Len(posts) is
\* never true: it has posts evaluated at each pass, not in one nest of
\* passes at the end.)
RECURSIVE LoadFrom(_, _, _, _, _)
LoadFrom(fs, stems, now, i, posts) ==
    IF i > Len(fs) \/ Len(posts) < 0
    THEN [raised |-> "none", at |-> 0, posts |-> posts]
    ELSE LET r == LoadFile(fs[i], i, stems[i], now) IN
         CASE r.kind = "raise" -> [raised |-> r.error, at |-> i, posts |-> <<>>]
           [] r.kind = "skip"  -> LoadFrom(fs, stems, now, i + 1, posts)
           [] OTHER -> LoadFrom(fs, stems, now, i + 1, Append(posts, r.post))

load_posts(fs, stems, now) ==
    LET r == LoadFrom(fs, stems, now, 1, <<>>)
    IN  [raised |-> r.raised, at |-> r.at, posts |-> SortNewestFirst(r.posts)]

(***************************************************************************)
(* Taxonomy aggregation.  A Python dict keeps its keys in insertion order: *)
(* tag_map is the sequence of its items in that order.                     *)
(***************************************************************************)
\* position of the item of tag in tag_map, 0 when the key is absent
TagIndex(tag_map, tag) ==
    IF \E i \in DOMAIN tag_map : tag_map[i].slug = tag
    THEN CHOOSE i \in DOMAIN tag_map : tag_map[i].slug = tag
    ELSE 0

\* the inner loop with the increment in an else branch: a new bucket keeps
\* the count 0
AddTagElse(tag_map, tag, p) ==
    IF TagIndex(tag_map, tag) = 0
    THEN Append(tag_map, [slug |-> tag, count |-> 0, posts |-> <<p>>])
    ELSE LET k == TagIndex(tag_map, tag)
         IN  [tag_map EXCEPT ![k] = [slug  |-> tag,
                                     count |-> tag_map[k].count + 1,
                                     posts |-> Append(tag_map[k].posts, p)]]

\* body of the inner loop of build_tags (lines 148-151); a post is referred
\* to by its position in posts
AddTag(tag_map, tag, p) ==
    LET tm == IF TagIndex(tag_map, tag) = 0
              THEN Append(tag_map, [slug |-> tag, count |-> 0, posts |-> <<>>])
              ELSE tag_map
        k  == TagIndex(tm, tag)
    IN  [tm EXCEPT ![k] = [slug  |-> tag,
                           count |-> tm[k].count + 1,
                           posts |-> Append(tm[k].posts, p)]]

RECURSIVE AddTags(_, _, _, _)
AddTags(tag_map, tags, t, p) ==
    IF t > Len(tags) THEN tag_map
    ELSE AddTags(AddTag(tag_map, tags[t], p), tags, t + 1, p)

\* the outer loop of build_tags from post p on.  (The test of Len(tag_map)
\* is never true: it has tag_map evaluated at each pass.)
RECURSIVE BuildTagsFrom(_, _, _)
BuildTagsFrom(posts, p, tag_map) ==
    IF p > Len(posts) \/ Len(tag_map) < 0 THEN tag_map
    ELSE BuildTagsFrom(posts, p + 1, AddTags(tag_map, posts[p].tags, 1, p))

build_tags(posts) == BuildTagsFrom(posts, 1, <<>>)

UpperChar(c) ==
    IF \E i \in DOMAIN LowerChars : LowerChars[i] = c
    THEN UpperChars[CHOOSE i \in DOMAIN LowerChars : LowerChars[i] = c]
    ELSE c

IsLetter(c) == c \in Range(LowerChars) \cup Range(UpperChars)

\* slug.replace("-", " ").title()
TagLabel(slug) ==
    LET spaced == [i \in DOMAIN slug |-> IF slug[i] = "-" THEN " " ELSE slug[i]]
    IN  [i \in DOMAIN spaced |->
            IF i = 1 \/ ~IsLetter(spaced[i - 1])
            THEN UpperChar(spaced[i]) ELSE LowerChar(spaced[i])]

\* tags_sorted as sorted(..., key=count)[::-1]
TagsSortedReversed(tag_map) ==
    ReversedSortAsc(
        [i \in DOMAIN tag_map |-> [slug  |-> tag_map[i].slug,
                                   label |-> TagLabel(tag_map[i].slug),
                                   count |-> tag_map[i].count]],
        [i \in DOMAIN tag_map |-> tag_map[i].count])

\* tags_sorted (lines 194-205): sorted(..., key=count, reverse=True)
TagsSorted(tag_map) ==
    StableSortDesc(
        [i \in DOMAIN tag_map |-> [slug  |-> tag_map[i].slug,
                                   label |-> TagLabel(tag_map[i].slug),
                                   count |-> tag_map[i].count]],
        [i \in DOMAIN tag_map |-> tag_map[i].count])

(***************************************************************************)
(* Path resolution.                                                        *)
(***************************************************************************)
\* rel_root counting the file name as a level
rel_rootWithFile(output_path) ==
    LET depth == Len(output_path)
    IN  IF depth = 0 THEN <<<<".">>>> ELSE [i \in 1..depth |-> <<"..">>]

\* rel_root: output_path is given relative to ROOT
rel_root(output_path) ==
    LET depth == Len(output_path) - 1
    IN  IF depth = 0 THEN <<<<".">>>> ELSE [i \in 1..depth |-> <<"..">>]

rel_url(path, rel_root_path) ==
    IF rel_root_path = <<<<".">>>> THEN path ELSE rel_root_path \o path

\* site_base followed by a canonical path ("/" + segments)
AbsUrl(segments) == <<SITE_BASE>> \o segments

(***************************************************************************)
(* Page planning: the helpers of main.                                     *)
(***************************************************************************)
nav_links_for(rel_root_path) ==
    [home       |-> rel_url(<<<<"index.html">>>>, rel_root_path),
     articles   |-> rel_url(<<<<"articles">>, <<"index.html">>>>, rel_root_path),
     categories |-> rel_url(<<<<"categories">>, <<"index.html">>>>, rel_root_path),
     about      |-> rel_url(<<<<"chi-siamo.html">>>>, rel_root_path),
     contact    |-> LET u == rel_url(<<<<"index.html">>>>, rel_root_path)
                    IN  [u EXCEPT ![Len(u)] = @ \o <<"#contact">>]]

ArticleRoot(slug) == <<<<"article">>, slug, <<"index.html">>>>

TagRoot(slug) == <<<<"tag">>, slug, <<"index.html">>>>

post_view(post, rel_root_path) ==
    [title     |-> post.title,
     excerpt   |-> post.excerpt,
     date      |-> post.date_str,
     author    |-> post.author,
     read_time |-> post.read_time,
     image_url |-> rel_url(post.cover_image, rel_root_path),
     url       |-> rel_url(ArticleRoot(post.slug), rel_root_path),
     tags      |-> [i \in DOMAIN post.tags |->
                      [slug  |-> post.tags[i],
                       label |-> TagLabel(post.tags[i]),
                       url   |-> rel_url(TagRoot(post.tags[i]), rel_root_path)]]]

PostViews(ps, rel_root_path) ==
    [i \in DOMAIN ps |-> post_view(ps[i], rel_root_path)]

\* tags of the home page and of the taxonomy index (lines 275-282, 387-394)
TagLinks(tags_sorted, rel_root_path) ==
    [i \in DOMAIN tags_sorted |->
        [label |-> tags_sorted[i].label,
         count |-> tags_sorted[i].count,
         url   |-> rel_url(TagRoot(tags_sorted[i].slug), rel_root_path)]]

\* posts[a:b], a Python slice with 0 <= a <= b
Slice(seq, a, b) ==
    SubSeq(seq, a + 1, IF b < Len(seq) THEN b ELSE Len(seq))

\* total_pages computed as len(posts) // PAGE_SIZE + 1
TotalPagesPlusOne(n) == (n \div PAGE_SIZE) + 1

\* total_pages (line 293)
TotalPages(n) ==
    LET q == (n + PAGE_SIZE - 1) \div PAGE_SIZE
    IN  IF q > 1 THEN q ELSE 1

\* page_posts with end = start + PAGE_SIZE - 1
PagePostsShort(posts, page) ==
    Slice(posts, (page - 1) * PAGE_SIZE, (page - 1) * PAGE_SIZE + PAGE_SIZE - 1)

\* page_posts (lines 295-297)
PagePosts(posts, page) ==
    Slice(posts, (page - 1) * PAGE_SIZE, (page - 1) * PAGE_SIZE + PAGE_SIZE)

\* str(n) for an integer n >= 0
RECURSIVE Decimal(_)
Decimal(n) ==
    IF n < 10 THEN <<DigitChars[n + 1]>>
    ELSE Decimal(n \div 10) \o <<DigitChars[(n % 10) + 1]>>

\* page_root (lines 298-303)
PageRoot(page) ==
    IF page = 1 THEN <<<<"articles">>, <<"index.html">>>>
    ELSE <<<<"articles">>, <<"page">>, Decimal(page), <<"index.html">>>>

\* canonical_path (lines 298-303), without its leading "/"
PageCanonical(page) ==
    IF page = 1 THEN <<<<"articles">>, <<>>>>
    ELSE <<<<"articles">>, <<"page">>, Decimal(page), <<>>>>

\* prev_root without the special case of page 2
PrevRootNested(page) ==
    <<<<"articles">>, <<"page">>, Decimal(page - 1), <<"index.html">>>>

\* prev_root (line 313)
PrevRoot(page) ==
    IF page = 2 THEN <<<<"articles">>, <<"index.html">>>>
    ELSE <<<<"articles">>, <<"page">>, Decimal(page - 1), <<"index.html">>>>

\* next_root (line 316)
NextRoot(page) ==
    <<<<"articles">>, <<"page">>, Decimal(page + 1), <<"index.html">>>>

\* pagination built whatever the number of pages
PaginationAlways(page, total_pages, rel_root_path) ==
    [t        |-> "dict",
     current  |-> page,
     total    |-> total_pages,
     prev_url |-> IF page > 1
                  THEN PyStr(rel_url(PrevRoot(page), rel_root_path))
                  ELSE None,
     next_url |-> IF page < total_pages
                  THEN PyStr(rel_url(NextRoot(page), rel_root_path))
                  ELSE None]

\* pagination with the test page <= total_pages for the next link
PaginationNextAlways(page, total_pages, rel_root_path) ==
    IF total_pages > 1
    THEN [t        |-> "dict",
          current  |-> page,
          total    |-> total_pages,
          prev_url |-> IF page > 1
                       THEN PyStr(rel_url(PrevRoot(page), rel_root_path))
                       ELSE None,
          next_url |-> IF page <= total_pages
                       THEN PyStr(rel_url(NextRoot(page), rel_root_path))
                       ELSE None]
    ELSE None

\* pagination (lines 308-323)
Pagination(page, total_pages, rel_root_path) ==
    IF total_pages > 1
    THEN [t        |-> "dict",
          current  |-> page,
          total    |-> total_pages,
          prev_url |-> IF page > 1
                       THEN PyStr(rel_url(PrevRoot(page), rel_root_path))
                       ELSE None,
          next_url |-> IF page < total_pages
                       THEN PyStr(rel_url(NextRoot(page), rel_root_path))
                       ELSE None]
    ELSE None

(***************************************************************************)
(* The source directory.                                                   *)
(***************************************************************************)
\* name stem of the file at position i of the sorted directory listing
StemOf(i) ==
    <<"f", LowerChars[((i - 1) \div 26) + 1], LowerChars[((i - 1) % 26) + 1]>>

\* body and rendered body of the files whose text is not varied
DefaultBody == <<"H","i"," ","y","o">>

DefaultHtml == <<"<","p",">","H","i"," ","y","o","<","/","p",">">>

SourceFile(delimited, yaml) ==
    [delimited |-> delimited, yaml |-> yaml,
     body |-> DefaultBody, html |-> DefaultHtml]

TitleHiYo == PyStr(<<"H","i"," ","Y","o">>)

DateSoon == PyStr(<<"s","o","o","n">>)

\* metadata maps of the varied source files
RichMaps ==
    { ("title" :> TitleHiYo) @@ ("date" :> PyDate(2)),
      ("title" :> TitleHiYo),
      ("title" :> None) @@ ("date" :> PyDate(2)),
      ("title" :> PyStr(<<" ">>)) @@ ("date" :> PyDate(2)),
      ("title" :> PyStr(<<>>)),
      ("date" :> DateSoon) @@ ("tags" :> PyList(<<PyStr(<<"z">>)>>)),
      ("title" :> PyStr(<<"!">>)) @@ ("date" :> PyDate(1)),
      ("title" :> TitleHiYo) @@ ("slug" :> PyStr(<<"M","y"," ","P">>))
          @@ ("date" :> PyDate(3)),
      ("title" :> TitleHiYo) @@ ("date" :> PyStr(strftime_Ymd(2))),
      ("title" :> TitleHiYo) @@ ("date" :> DateSoon),
      ("title" :> TitleHiYo) @@ ("date" :> None),
      ("title" :> TitleHiYo) @@ ("date" :> PyDate(2))
          @@ ("tags" :> PyList(<<PyStr(<<"L","i">>), PyStr(<<"l","i">>),
                                 PyStr(<<>>)>>)),
      ("title" :> PyStr(<<"A","-","b">>)) @@ ("date" :> PyDate(3))
          @@ ("tags" :> PyStr(<<"l","i",","," ","b">>)),
      ("title" :> PyStr(<<"a","\\","b">>)) @@ ("date" :> PyDate(1)) }

\* the varied source files: no header marker, a header that is not valid
\* YAML, a header that is a scalar, an empty header, and the maps above
RichFiles ==
    { SourceFile(FALSE, None),
      SourceFile(TRUE, YamlError),
      SourceFile(TRUE, PyStr(<<"x">>)),
      SourceFile(TRUE, None) }
    \cup { SourceFile(TRUE, PyDict(m)) : m \in RichMaps }

SeqsUpTo(S, n) == UNION {[1..k -> S] : k \in 0..n}

\* the directories of the specification Spec: up to MaxRich varied files
SourceSets == SeqsUpTo(RichFiles, MaxRich)

\* the plain file at position i of an archive: a title of its own, a date
\* that cycles with the given step, one tag of three and, every fourth
\* file, a second tag
PlainFile(i, step) ==
    SourceFile(TRUE, PyDict(
        ("title" :> PyStr(SubSeq(StemOf(i), 2, 3)))
        @@ ("date" :> PyDate(1 + ((i * step) % 3)))
        @@ ("tags" :> PyList(
               <<PyStr(<<"t", DigitChars[(i % 3) + 1]>>)>>
               \o (IF i % 4 = 0 THEN <<PyStr(<<"L","i">>)>> ELSE <<>>)))))

\* the directories of the specification SpecArchive: 0..MaxDocs plain files
ArchiveSets ==
    { [i \in 1..n |-> PlainFile(i, step)] : n \in 0..MaxDocs, step \in 0..2 }

\* day of the build (datetime.now)
BuildDays == {3}

\* body texts: every text of at most MaxBodyLen characters over
\* BodyAlphabet, and long bodies of n words
BodyAlphabet == {"\\", "w", "a", " "}

\* n times the word "ab" followed by a line break
WordsBody(n) == [i \in 1..(3 * n) |-> <<"a", "b", "\n">>[((i - 1) % 3) + 1]]

\* n times a backslash and the letter w followed by a space
BackslashBody(n) == [i \in 1..(3 * n) |-> <<"\\", "w", " ">>[((i - 1) % 3) + 1]]

BodyInputs ==
    SeqsUpTo(BodyAlphabet, MaxBodyLen)
    \cup {WordsBody(100), WordsBody(700), WordsBody(1000), BackslashBody(300),
          BackslashBody(700),
          <<"a", "\\", "w", "w", "w", "\\", "w", "\\", "\\", "w", "b">>}

\* rendered bodies: every text of at most MaxHtmlLen characters over
\* HtmlAlphabet, and a few longer ones
HtmlAlphabet == {"<", ">", "p", " ", "\n"}

\* a paragraph of n words, one on a line
ParagraphsHtml(n) ==
    <<"<", "p", ">">>
    \o [i \in 1..(2 * n) |-> IF i % 2 = 1 THEN "a" ELSE "\n"]
    \o <<"<", "/", "p", ">">>

HtmlSamples ==
    { <<"<","p",">","H","e","l","l","o"," ","w","o","r","l","d"," ","f","o",
        "o"," ","b","a","r","<","/","p",">">>,
      ParagraphsHtml(31), ParagraphsHtml(32), ParagraphsHtml(33),
      ParagraphsHtml(40),
      <<"a", "<", "b", "r", ">", "b", " ", " ", "c", "<", ">", "d">> }

HtmlInputs == SeqsUpTo(HtmlAlphabet, MaxHtmlLen) \cup HtmlSamples

\* the excerpt field of the metadata: absent, empty, blank, given, given
\* with spaces around it, and a YAML null
ExcerptInputs ==
    { EmptyDict,
      "excerpt" :> PyStr(<<>>),
      "excerpt" :> PyStr(<<" ", "\n">>),
      "excerpt" :> PyStr(<<"S", "u", "m">>),
      "excerpt" :> PyStr(<<" ", "A", " ", " ", "b", " ">>),
      "excerpt" :> None }

\* a titled, dated, tagged source file with the given excerpt field, body
\* and rendered body
SummaryFile(excerpt, body, html) ==
    [delimited |-> TRUE,
     yaml |-> PyDict(("title" :> PyStr(<<"T">>)) @@ ("date" :> PyDate(2))
                     @@ ("tags" :> PyList(<<PyStr(<<"t">>)>>)) @@ excerpt),
     body |-> body,
     html |-> html]

SummaryFiles ==
    { SummaryFile(e, DefaultBody, h) : e \in ExcerptInputs, h \in HtmlSamples }
    \cup { SummaryFile(EmptyDict, DefaultBody, h) : h \in HtmlInputs }
    \cup { SummaryFile(EmptyDict, b, DefaultHtml) : b \in BodyInputs }

\* the directories of the specification SpecSummary: one such file
SummarySets == { <<f>> : f \in SummaryFiles }

(***************************************************************************)
(* State.                                                                  *)
(***************************************************************************)
VARIABLES
    files,             \* the source files, in sorted(glob) order
    today,             \* the day the build runs
    pc,                \* position of main
    raised,            \* the exception that ended main, with the file it came from
    dirs,              \* directories made by ensure_dirs
    posts,             \* result of load_posts
    tag_map,           \* result of build_tags
    tags_sorted,       \* the ranked tag list
    page,              \* loop variable of the listing pages, then of the tag
                       \* pages and of the detail pages
    writes,            \* the calls of write_file so far, in order
    pages_for_sitemap, \* as in main
    slug_in,           \* argument of slugify (function-level specification)
    slug_out,          \* its result
    prev,              \* the earlier builds over the same tree: for each its
                       \* day and its calls of write_file
    path_in,           \* argument of rel_root (function-level specification)
    target_in,         \* first argument of rel_url
    root_out,          \* result of rel_root
    url_out,           \* result of rel_url
    daily_env,         \* generate_daily.main: whether DRY_RUN is 'true' and
                       \* whether the groq package is there
    archive,           \* the posts of posts.json as load_posts returned them
    max_attempts,      \* the attempt limit read from the environment
    attempt,           \* the loop variable
    calls,             \* the calls of generate_article so far, each with
                       \* its topic and what became of it
    candidate,         \* topic, title and article as bound by the loop
    appended,          \* the records appended to posts.json by the run
    ig_env,            \* publish_to_instagram: which credentials are set
    sent,              \* the HTTP requests it has sent, in order
    received,          \* the outcome of each of them
    ig_result          \* what the call returned

vars == <<files, today, pc, raised, dirs, posts, tag_map, tags_sorted, page,
          writes, pages_for_sitemap, slug_in, slug_out, prev, path_in,
          target_in, root_out, url_out, daily_env, archive, max_attempts, attempt,
          calls, candidate, appended, ig_env, sent, received, ig_result>>

\* the variables of the function-level specification of rel_root, rel_url
relVars == <<path_in, target_in, root_out, url_out>>

\* the variables of generate_daily.main
dailyVars == <<daily_env, archive, max_attempts, attempt, calls, candidate,
               appended>>

\* the variables of generate_instagram.publish_to_instagram
igVars == <<ig_env, sent, received, ig_result>>

NoError == [error |-> "none", at |-> 0]

\* no name of the attempt loop is bound yet
Unbound == [bound |-> FALSE]

\* generate_daily.main has not run
DailyIdle ==
    /\ daily_env = [dry_run |-> FALSE, groq |-> FALSE]
    /\ archive = <<>>
    /\ max_attempts = 0
    /\ attempt = 0
    /\ calls = <<>>
    /\ candidate = Unbound
    /\ appended = <<>>

NotReturned == [returned |-> FALSE]

\* publish_to_instagram has not been called
InstagramIdle ==
    /\ ig_env = {}
    /\ sent = <<>>
    /\ received = <<>>
    /\ ig_result = NotReturned

Init ==
    /\ files \in SourceSets
    /\ today \in BuildDays
    /\ pc = "start"
    /\ raised = NoError
    /\ dirs = {}
    /\ posts = <<>>
    /\ tag_map = <<>>
    /\ tags_sorted = <<>>
    /\ page = 0
    /\ writes = <<>>
    /\ pages_for_sitemap = <<>>
    /\ slug_in = <<>>
    /\ slug_out = <<>>
    /\ prev = <<>>
    /\ path_in = <<>>
    /\ target_in = <<>>
    /\ root_out = <<>>
    /\ url_out = <<>>
    /\ DailyIdle
    /\ InstagramIdle

\* the same build over an archive of plain files, long enough for several
\* listing pages
InitArchive ==
    /\ files \in ArchiveSets
    /\ today \in BuildDays
    /\ pc = "start"
    /\ raised = NoError
    /\ dirs = {}
    /\ posts = <<>>
    /\ tag_map = <<>>
    /\ tags_sorted = <<>>
    /\ page = 0
    /\ writes = <<>>
    /\ pages_for_sitemap = <<>>
    /\ slug_in = <<>>
    /\ slug_out = <<>>
    /\ prev = <<>>
    /\ path_in = <<>>
    /\ target_in = <<>>
    /\ root_out = <<>>
    /\ url_out = <<>>
    /\ DailyIdle
    /\ InstagramIdle

\* the same build over one file whose excerpt, body and rendered body vary
InitSummary ==
    /\ files \in SummarySets
    /\ today \in BuildDays
    /\ pc = "start"
    /\ raised = NoError
    /\ dirs = {}
    /\ posts = <<>>
    /\ tag_map = <<>>
    /\ tags_sorted = <<>>
    /\ page = 0
    /\ writes = <<>>
    /\ pages_for_sitemap = <<>>
    /\ slug_in = <<>>
    /\ slug_out = <<>>
    /\ prev = <<>>
    /\ path_in = <<>>
    /\ target_in = <<>>
    /\ root_out = <<>>
    /\ url_out = <<>>
    /\ DailyIdle
    /\ InstagramIdle

Stems == [i \in DOMAIN files |-> StemOf(i)]

\* write_file(path, content) as called by render: content is kept as the
\* template name and the context handed to it
Rendered(template, path, context) ==
    [path |-> path, template |-> template, context |-> context]

\* ensure_dirs also leaving an empty sitemap.xml in the output tree
EnsureDirsTouching ==
    /\ pc = "start"
    /\ dirs' = {<<"articles">>, <<"categories">>, <<"tag">>, <<"article">>,
                <<"data">>}
    /\ writes' = Append(writes, [path     |-> <<<<"sitemap.xml">>>>,
                                 template |-> "xml",
                                 context  |-> [urls |-> <<>>]])
    /\ pc' = "load"
    /\ UNCHANGED <<files, today, raised, posts, tag_map, tags_sorted, page,
                   pages_for_sitemap, slug_in, slug_out, prev, relVars,
                   dailyVars, igVars>>

\* main, lines 182-183: ensure_dirs
EnsureDirs ==
    /\ pc = "start"
    /\ dirs' = {<<"articles">>, <<"categories">>, <<"tag">>, <<"article">>,
                <<"data">>}
    /\ pc' = "load"
    /\ UNCHANGED <<files, today, raised, posts, tag_map, tags_sorted, page,
                   writes, pages_for_sitemap, slug_in, slug_out, prev, relVars, dailyVars,
                   igVars>>

\* main, lines 191-208: load_posts, build_tags, tags_sorted
LoadPosts ==
    /\ pc = "load"
    /\ LET r == load_posts(files, Stems, today) IN
       IF r.raised # "none"
       THEN /\ pc' = "aborted"
            /\ raised' = [error |-> r.raised, at |-> r.at]
            /\ UNCHANGED <<posts, tag_map, tags_sorted>>
       ELSE /\ pc' = "index"
            /\ posts' = r.posts
            /\ tag_map' = build_tags(r.posts)
            /\ tags_sorted' = TagsSorted(build_tags(r.posts))
            /\ UNCHANGED raised
    /\ UNCHANGED <<files, today, dirs, page, writes, pages_for_sitemap,
                   slug_in, slug_out, prev, relVars, dailyVars,
                   igVars>>

\* main, lines 244-290: the home page
RenderIndex ==
    /\ pc = "index"
    /\ LET index_path == <<<<"index.html">>>>
           rr == rel_root(index_path)
       IN  writes' = Append(writes, Rendered("index.html", index_path,
               [asset_base     |-> rel_url(<<<<"assets">>>>, rr),
                nav_links      |-> nav_links_for(rr),
                canonical      |-> AbsUrl(<<<<>>>>),
                latest_posts   |-> PostViews(Slice(posts, 0, 3), rr),
                trending_posts |-> PostViews(Slice(posts, 0, 5), rr),
                tags           |-> TagLinks(tags_sorted, rr)]))
    /\ pages_for_sitemap' = Append(pages_for_sitemap,
                                   <<AbsUrl(<<<<>>>>), strftime_Ymd(today)>>)
    /\ page' = 1
    /\ pc' = "articles"
    /\ UNCHANGED <<files, today, raised, dirs, posts, tag_map, tags_sorted,
                   slug_in, slug_out, prev, relVars, dailyVars,
                   igVars>>

\* main, lines 292-357: one iteration of the loop over the listing pages
RenderArticlesPage ==
    /\ pc = "articles"
    /\ LET total_pages == TotalPages(Len(posts))
           output_path == PageRoot(page)
           rr == rel_root(output_path)
       IN  /\ writes' = Append(writes, Rendered("articles.html", output_path,
                  [asset_base |-> rel_url(<<<<"assets">>>>, rr),
                   nav_links  |-> nav_links_for(rr),
                   canonical  |-> AbsUrl(PageCanonical(page)),
                   page       |-> page,
                   posts      |-> PostViews(PagePosts(posts, page), rr),
                   pagination |-> Pagination(page, total_pages, rr)]))
           /\ pages_for_sitemap' = Append(pages_for_sitemap,
                  <<AbsUrl(PageCanonical(page)), strftime_Ymd(today)>>)
           /\ IF page < total_pages
              THEN page' = page + 1 /\ pc' = "articles"
              ELSE page' = 0 /\ pc' = "categories"
    /\ UNCHANGED <<files, today, raised, dirs, posts, tag_map, tags_sorted,
                   slug_in, slug_out, prev, relVars, dailyVars,
                   igVars>>

\* where main goes after the informational page, and after the tag pages:
\* a for loop over an empty list runs no iteration
AfterTagPages(ps) == IF ps = <<>> THEN "posts_json" ELSE "article_pages"

AfterAbout(ts, ps) == IF ts = <<>> THEN AfterTagPages(ps) ELSE "tag_pages"

\* main, lines 359-397: the taxonomy index
RenderCategories ==
    /\ pc = "categories"
    /\ LET categories_path == <<<<"categories">>, <<"index.html">>>>
           rr == rel_root(categories_path)
       IN  writes' = Append(writes, Rendered("categories.html", categories_path,
               [asset_base |-> rel_url(<<<<"assets">>>>, rr),
                nav_links  |-> nav_links_for(rr),
                canonical  |-> AbsUrl(<<<<"categories">>, <<>>>>),
                tags       |-> TagLinks(tags_sorted, rr)]))
    /\ pages_for_sitemap' = Append(pages_for_sitemap,
           <<AbsUrl(<<<<"categories">>, <<>>>>), strftime_Ymd(today)>>)
    /\ pc' = "about"
    /\ UNCHANGED <<files, today, raised, dirs, posts, tag_map, tags_sorted,
                   page, slug_in, slug_out, prev, relVars, dailyVars,
                   igVars>>

\* main, lines 399-433: the informational page
RenderAbout ==
    /\ pc = "about"
    /\ LET about_path == <<<<"chi-siamo.html">>>>
           rr == rel_root(about_path)
       IN  writes' = Append(writes, Rendered("about.html", about_path,
               [asset_base  |-> rel_url(<<<<"assets">>>>, rr),
                nav_links   |-> nav_links_for(rr),
                canonical   |-> AbsUrl(<<<<"chi-siamo.html">>>>),
                about_image |-> rel_url(<<<<"assets">>, <<"images">>,
                                          <<"author-placeholder.svg">>>>, rr)]))
    /\ pages_for_sitemap' = Append(pages_for_sitemap,
           <<AbsUrl(<<<<"chi-siamo.html">>>>), strftime_Ymd(today)>>)
    /\ page' = 1
    /\ pc' = AfterAbout(tags_sorted, posts)
    /\ UNCHANGED <<files, today, raised, dirs, posts, tag_map, tags_sorted,
                   slug_in, slug_out, prev, relVars, dailyVars,
                   igVars>>

\* the tag page with the date of its first document as its last-modified
\* date
RenderTagPageDated ==
    /\ pc = "tag_pages"
    /\ LET tag == tags_sorted[page]
           tag_path == TagRoot(tag.slug)
           rr == rel_root(tag_path)
           members == tag_map[TagIndex(tag_map, tag.slug)].posts
       IN  /\ writes' = Append(writes, Rendered("tag.html", tag_path,
                  [asset_base |-> rel_url(<<<<"assets">>>>, rr),
                   nav_links  |-> nav_links_for(rr),
                   canonical  |-> AbsUrl(<<<<"tag">>, tag.slug, <<>>>>),
                   tag        |-> [label |-> tag.label, count |-> tag.count],
                   posts      |-> [i \in DOMAIN members |->
                                      post_view(posts[members[i]], rr)]]))
           /\ pages_for_sitemap' = Append(pages_for_sitemap,
                  <<AbsUrl(<<<<"tag">>, tag.slug, <<>>>>),
                    posts[members[1]].date_str>>)
    /\ IF page < Len(tags_sorted)
       THEN page' = page + 1 /\ pc' = "tag_pages"
       ELSE page' = 1 /\ pc' = AfterTagPages(posts)
    /\ UNCHANGED <<files, today, raised, dirs, posts, tag_map, tags_sorted,
                   slug_in, slug_out, prev, relVars, dailyVars,
                   igVars>>

\* main, lines 435-473: one iteration of the loop over tags_sorted
RenderTagPage ==
    /\ pc = "tag_pages"
    /\ LET tag == tags_sorted[page]
           tag_path == TagRoot(tag.slug)
           rr == rel_root(tag_path)
           members == tag_map[TagIndex(tag_map, tag.slug)].posts
       IN  /\ writes' = Append(writes, Rendered("tag.html", tag_path,
                  [asset_base |-> rel_url(<<<<"assets">>>>, rr),
                   nav_links  |-> nav_links_for(rr),
                   canonical  |-> AbsUrl(<<<<"tag">>, tag.slug, <<>>>>),
                   tag        |-> [label |-> tag.label, count |-> tag.count],
                   posts      |-> [i \in DOMAIN members |->
                                      post_view(posts[members[i]], rr)]]))
           /\ pages_for_sitemap' = Append(pages_for_sitemap,
                  <<AbsUrl(<<<<"tag">>, tag.slug, <<>>>>), strftime_Ymd(today)>>)
    /\ IF page < Len(tags_sorted)
       THEN page' = page + 1 /\ pc' = "tag_pages"
       ELSE page' = 1 /\ pc' = AfterTagPages(posts)
    /\ UNCHANGED <<files, today, raised, dirs, posts, tag_map, tags_sorted,
                   slug_in, slug_out, prev, relVars, dailyVars,
                   igVars>>

\* the detail page with the day of the build as its last-modified date
RenderArticlePageStamped ==
    /\ pc = "article_pages"
    /\ LET post == posts[page]
           article_path == ArticleRoot(post.slug)
           rr == rel_root(article_path)
       IN  /\ writes' = Append(writes, Rendered("article.html", article_path,
                  [asset_base |-> rel_url(<<<<"assets">>>>, rr),
                   nav_links  |-> nav_links_for(rr),
                   canonical  |-> AbsUrl(<<<<"article">>, post.slug, <<>>>>),
                   post       |-> [content_html |-> post.content_html]
                                  @@ post_view(post, rr)]))
           /\ pages_for_sitemap' = Append(pages_for_sitemap,
                  <<AbsUrl(<<<<"article">>, post.slug, <<>>>>),
                    strftime_Ymd(today)>>)
    /\ IF page < Len(posts)
       THEN page' = page + 1 /\ pc' = "article_pages"
       ELSE page' = 0 /\ pc' = "posts_json"
    /\ UNCHANGED <<files, today, raised, dirs, posts, tag_map, tags_sorted,
                   slug_in, slug_out, prev, relVars, dailyVars,
                   igVars>>

\* main, lines 475-525: one iteration of the loop over posts
RenderArticlePage ==
    /\ pc = "article_pages"
    /\ LET post == posts[page]
           article_path == ArticleRoot(post.slug)
           rr == rel_root(article_path)
       IN  /\ writes' = Append(writes, Rendered("article.html", article_path,
                  [asset_base |-> rel_url(<<<<"assets">>>>, rr),
                   nav_links  |-> nav_links_for(rr),
                   canonical  |-> AbsUrl(<<<<"article">>, post.slug, <<>>>>),
                   post       |-> [content_html |-> post.content_html]
                                  @@ post_view(post, rr)]))
           /\ pages_for_sitemap' = Append(pages_for_sitemap,
                  <<AbsUrl(<<<<"article">>, post.slug, <<>>>>),
                    strftime_Ymd(post.date)>>)
    /\ IF page < Len(posts)
       THEN page' = page + 1 /\ pc' = "article_pages"
       ELSE page' = 0 /\ pc' = "posts_json"
    /\ UNCHANGED <<files, today, raised, dirs, posts, tag_map, tags_sorted,
                   slug_in, slug_out, prev, relVars, dailyVars,
                   igVars>>

\* main, lines 527-545: data/posts.json
WritePostsJson ==
    /\ pc = "posts_json"
    /\ writes' = Append(writes,
           [path     |-> <<<<"data">>, <<"posts.json">>>>,
            template |-> "json",
            context  |-> [version |-> 2,
                          posts   |-> [i \in DOMAIN posts |->
                              [title  |-> posts[i].title,
                               summary |-> posts[i].excerpt,
                               date   |-> posts[i].date_str,
                               read_minutes |-> posts[i].read_time,
                               author |-> posts[i].author,
                               tags   |-> posts[i].tags,
                               image  |-> posts[i].cover_image,
                               path   |-> ArticleRoot(posts[i].slug),
                               slug   |-> posts[i].slug]]]])
    /\ pc' = "tags_json"
    /\ UNCHANGED <<files, today, raised, dirs, posts, tag_map, tags_sorted,
                   page, pages_for_sitemap, slug_in, slug_out, prev, relVars, dailyVars,
                   igVars>>

\* main, lines 547-559: data/tags.json
WriteTagsJson ==
    /\ pc = "tags_json"
    /\ writes' = Append(writes,
           [path     |-> <<<<"data">>, <<"tags.json">>>>,
            template |-> "json",
            context  |-> [version |-> 1,
                          tags    |-> [i \in DOMAIN tags_sorted |->
                              [tag   |-> tags_sorted[i].slug,
                               label |-> tags_sorted[i].label,
                               count |-> tags_sorted[i].count,
                               path  |-> TagRoot(tags_sorted[i].slug)]]]])
    /\ pc' = "robots"
    /\ UNCHANGED <<files, today, raised, dirs, posts, tag_map, tags_sorted,
                   page, pages_for_sitemap, slug_in, slug_out, prev, relVars, dailyVars,
                   igVars>>

\* the text of robots.txt (line 562): in the f-string "\\n" is a backslash
\* followed by the letter n
RobotsText ==
    <<"User-agent: *", "\\", "n", "Allow: /", "\\", "n", "Sitemap: ">>
    \o SITE_BASE \o <<"/sitemap.xml", "\\", "n">>

\* main, lines 561-563: robots.txt
WriteRobots ==
    /\ pc = "robots"
    /\ writes' = Append(writes,
           [path     |-> <<<<"robots.txt">>>>,
            template |-> "text",
            context  |-> [text |-> RobotsText]])
    /\ pc' = "sitemap"
    /\ UNCHANGED <<files, today, raised, dirs, posts, tag_map, tags_sorted,
                   page, pages_for_sitemap, slug_in, slug_out, prev, relVars, dailyVars,
                   igVars>>

\* main, lines 565-576: sitemap.xml
WriteSitemap ==
    /\ pc = "sitemap"
    /\ writes' = Append(writes,
           [path     |-> <<<<"sitemap.xml">>>>,
            template |-> "xml",
            context  |-> [urls |-> [i \in DOMAIN pages_for_sitemap |->
                              [loc     |-> pages_for_sitemap[i][1],
                               lastmod |-> pages_for_sitemap[i][2]]]]])
    /\ pc' = "done"
    /\ UNCHANGED <<files, today, raised, dirs, posts, tag_map, tags_sorted,
                   page, pages_for_sitemap, slug_in, slug_out, prev, relVars, dailyVars,
                   igVars>>

Next ==
    \/ EnsureDirs
    \/ LoadPosts
    \/ RenderIndex
    \/ RenderArticlesPage
    \/ RenderCategories
    \/ RenderAbout
    \/ RenderTagPage
    \/ RenderArticlePage
    \/ WritePostsJson
    \/ WriteTagsJson
    \/ WriteRobots
    \/ WriteSitemap

Spec == Init /\ [][Next]_vars

SpecArchive == InitArchive /\ [][Next]_vars

SpecSummary == InitSummary /\ [][Next]_vars

(***************************************************************************)
(* Successive builds: the program is run again over the same source files, *)
(* the same day or the day after.                                          *)
(***************************************************************************)
\* a new run of main after a finished one; the finished build is kept in
\* prev
Rebuild ==
    /\ pc = "done"
    /\ Len(prev) + 1 < MaxBuilds
    /\ prev' = Append(prev, [today |-> today, writes |-> writes])
    /\ today' \in {today, today + 1}
    /\ pc' = "start"
    /\ raised' = NoError
    /\ posts' = <<>>
    /\ tag_map' = <<>>
    /\ tags_sorted' = <<>>
    /\ page' = 0
    /\ writes' = <<>>
    /\ pages_for_sitemap' = <<>>
    /\ UNCHANGED <<files, dirs, slug_in, slug_out, relVars, dailyVars,
                   igVars>>

NextRebuild ==
    \/ Next
    \/ Rebuild

SpecRebuild == Init /\ [][NextRebuild]_vars

(***************************************************************************)
(* Successive builds over a source directory that is edited in between.    *)
(* main never deletes a file: write_file creates or overwrites, so the     *)
(* output tree holds every file some build has written.                    *)
(***************************************************************************)
\* what the source directory fs can be edited into: its last file removed,
\* its first file removed, or one file added at the end
EditedSets(fs) ==
    (IF fs = <<>> THEN {} ELSE {SubSeq(fs, 1, Len(fs) - 1), Tail(fs)})
    \cup (IF Len(fs) < MaxDocs
          THEN {Append(fs, PlainFile(Len(fs) + 1, 1))}
          ELSE {})

\* the source directory is edited and main is run again; the finished
\* build is kept in prev
RebuildEdited ==
    /\ pc = "done"
    /\ Len(prev) + 1 < MaxBuilds
    /\ files' \in EditedSets(files)
    /\ prev' = Append(prev, [today |-> today, writes |-> writes])
    /\ today' \in {today, today + 1}
    /\ pc' = "start"
    /\ raised' = NoError
    /\ posts' = <<>>
    /\ tag_map' = <<>>
    /\ tags_sorted' = <<>>
    /\ page' = 0
    /\ writes' = <<>>
    /\ pages_for_sitemap' = <<>>
    /\ UNCHANGED <<dirs, slug_in, slug_out, relVars, dailyVars, igVars>>

NextEdited ==
    \/ Next
    \/ RebuildEdited

SpecEdited == InitArchive /\ [][NextEdited]_vars

(***************************************************************************)
(* Failing builds: main has no try/except, so an exception raised by       *)
(* render (get_template, template.render, write_file) or by a direct call  *)
(* of write_file leaves main at once.                                      *)
(***************************************************************************)
\* what render can raise: the template is missing, it does not render, or
\* the file cannot be written
RenderErrors == {"TemplateNotFound", "TemplateError", "OSError"}

RenderPositions ==
    {"index", "articles", "categories", "about", "tag_pages", "article_pages"}

DataPositions == {"posts_json", "tags_json", "robots", "sitemap"}

\* the output path of the page or data file main is at
CurrentPath ==
    CASE pc = "index"         -> <<<<"index.html">>>>
      [] pc = "articles"      -> PageRoot(page)
      [] pc = "categories"    -> <<<<"categories">>, <<"index.html">>>>
      [] pc = "about"         -> <<<<"chi-siamo.html">>>>
      [] pc = "tag_pages"     -> TagRoot(tags_sorted[page].slug)
      [] pc = "article_pages" -> ArticleRoot(posts[page].slug)
      [] pc = "posts_json"    -> <<<<"data">>, <<"posts.json">>>>
      [] pc = "tags_json"     -> <<<<"data">>, <<"tags.json">>>>
      [] pc = "robots"        -> <<<<"robots.txt">>>>
      [] OTHER                -> <<<<"sitemap.xml">>>>

\* what a failed path.write_text can leave at the path: nothing, or a file
\* that was opened and not written in full
Leftover(partial) ==
    IF partial
    THEN Append(writes, [path     |-> CurrentPath,
                         template |-> "partial",
                         context  |-> [partial |-> TRUE]])
    ELSE writes

\* render with the exception caught around the page section of main: the
\* remaining pages are skipped and the data files are written
RenderFailsSwallowed ==
    /\ pc \in RenderPositions
    /\ \E e \in RenderErrors :
          raised' = [error |-> e, at |-> Len(writes) + 1]
    /\ pc' = "posts_json"
    /\ page' = 0
    /\ UNCHANGED <<files, today, dirs, posts, tag_map, tags_sorted, writes,
                   pages_for_sitemap, slug_in, slug_out, prev, relVars,
                   dailyVars, igVars>>

\* render (lines 219-222) raising for the page main is at
RenderFails ==
    /\ pc \in RenderPositions
    /\ \E e \in RenderErrors, partial \in BOOLEAN :
          /\ partial => e = "OSError"
          /\ raised' = [error |-> e, at |-> Len(writes) + 1]
          /\ writes' = Leftover(partial)
    /\ pc' = "failed"
    /\ UNCHANGED <<files, today, dirs, posts, tag_map, tags_sorted, page,
                   pages_for_sitemap, slug_in, slug_out, prev, relVars,
                   dailyVars, igVars>>

\* write_file (lines 176-178) raising for one of the data files of lines
\* 527-576
WriteFails ==
    /\ pc \in DataPositions
    /\ \E partial \in BOOLEAN :
          /\ raised' = [error |-> "OSError", at |-> Len(writes) + 1]
          /\ writes' = Leftover(partial)
    /\ pc' = "failed"
    /\ UNCHANGED <<files, today, dirs, posts, tag_map, tags_sorted, page,
                   pages_for_sitemap, slug_in, slug_out, prev, relVars,
                   dailyVars, igVars>>

NextFailing ==
    \/ Next
    \/ RenderFails
    \/ WriteFails

SpecFailing == Init /\ [][NextFailing]_vars

(***************************************************************************)
(* Function-level specification of slugify: every text of at most          *)
(* MaxSlugLen characters over SlugAlphabet, and a few longer ones.         *)
(***************************************************************************)
SlugAlphabet == {"a", "B", "s", "1", " ", "-", "\\", "!"}

SlugSamples ==
    { <<"H","e","l","l","o"," "," ","W","o","r","l","d">>,
      <<" ","a"," ","\\"," ","s"," ">>,
      <<"-","-","a","_","b","-","-">> }

SlugInputs == SeqsUpTo(SlugAlphabet, MaxSlugLen) \cup SlugSamples

InitSlugify ==
    /\ slug_in \in SlugInputs
    /\ slug_out = <<>>
    /\ prev = <<>>
    /\ path_in = <<>>
    /\ target_in = <<>>
    /\ root_out = <<>>
    /\ url_out = <<>>
    /\ DailyIdle
    /\ InstagramIdle
    /\ pc = "slugify"
    /\ files = <<>>
    /\ today = 1
    /\ raised = NoError
    /\ dirs = {}
    /\ posts = <<>>
    /\ tag_map = <<>>
    /\ tags_sorted = <<>>
    /\ page = 0
    /\ writes = <<>>
    /\ pages_for_sitemap = <<>>

CallSlugify ==
    /\ pc = "slugify"
    /\ slug_out' = slugify(slug_in)
    /\ pc' = "slugified"
    /\ UNCHANGED <<files, today, raised, dirs, posts, tag_map, tags_sorted,
                   page, writes, pages_for_sitemap, slug_in, prev, relVars, dailyVars,
                   igVars>>

NextSlugify == CallSlugify

SpecSlugify == InitSlugify /\ [][NextSlugify]_vars

(***************************************************************************)
(* Function-level specification of rel_root and rel_url: every output      *)
(* path of at most MaxDepth directories, and a few targets.                *)
(***************************************************************************)
PathSegments == {<<"tag">>, <<"li">>, <<"index.html">>}

\* output paths relative to ROOT: directories, then the file name
PathInputs == UNION {[1..k -> PathSegments] : k \in 1..(MaxDepth + 1)}

TargetInputs ==
    { <<<<"assets">>>>,
      <<<<"index.html">>>>,
      <<<<"articles">>, <<"index.html">>>> }

InitRelUrl ==
    /\ path_in \in PathInputs
    /\ target_in \in TargetInputs
    /\ root_out = <<>>
    /\ url_out = <<>>
    /\ DailyIdle
    /\ InstagramIdle
    /\ pc = "resolve"
    /\ files = <<>>
    /\ today = 1
    /\ raised = NoError
    /\ dirs = {}
    /\ posts = <<>>
    /\ tag_map = <<>>
    /\ tags_sorted = <<>>
    /\ page = 0
    /\ writes = <<>>
    /\ pages_for_sitemap = <<>>
    /\ slug_in = <<>>
    /\ slug_out = <<>>
    /\ prev = <<>>

\* rel_url(target, rel_root(output_path)), as every page of main calls it
CallRelUrl ==
    /\ pc = "resolve"
    /\ root_out' = rel_root(path_in)
    /\ url_out' = rel_url(target_in, rel_root(path_in))
    /\ pc' = "resolved"
    /\ UNCHANGED <<files, today, raised, dirs, posts, tag_map, tags_sorted,
                   page, writes, pages_for_sitemap, slug_in, slug_out, prev,
                   path_in, target_in, dailyVars, igVars>>

NextRelUrl == CallRelUrl

SpecRelUrl == InitRelUrl /\ [][NextRelUrl]_vars

(***************************************************************************)
(* Properties.                                                             *)
(***************************************************************************)
\* load_posts has returned
Loaded ==
    pc \in {"index", "articles", "categories", "about", "tag_pages",
            "article_pages", "posts_json", "tags_json", "robots", "sitemap",
            "done"}

\* the loop over the listing pages has ended
ListingDone == Loaded /\ pc \notin {"index", "articles"}

WritesOf(template) == SelectSeq(writes, LAMBDA w : w.template = template)

ListingWrites == WritesOf("articles.html")

Min(a, b) == IF a < b THEN a ELSE b

Max(a, b) == IF a > b THEN a ELSE b

\* C1: the sequence returned by load_posts is ordered by publish date
\* descending, and two documents with the same date stand in discovery
\* order (ascending source file name)
C1_NewestFirstStable ==
    Loaded =>
        \A i \in 1..(Len(posts) - 1) :
            \/ posts[i].date > posts[i + 1].date
            \/ /\ posts[i].date = posts[i + 1].date
               /\ posts[i].md < posts[i + 1].md

\* a loaded sequence with two documents of one date next to each other
\* and a document that the sort moved before an earlier file
C1_Witness ==
    /\ Loaded
    /\ \E i \in 1..(Len(posts) - 1) : posts[i].date = posts[i + 1].date
    /\ \E i \in 1..(Len(posts) - 1) : posts[i].md > posts[i + 1].md

\* C2: the number of listing pages rendered is ceil(n / PAGE_SIZE) for n
\* documents, and 1 when there is none
C2_ListingPageCount ==
    ListingDone =>
        LET n == Len(posts)
            N == Len(ListingWrites)
        IN  /\ N >= 1
            /\ N * PAGE_SIZE >= n
            /\ (N - 1) * PAGE_SIZE < n \/ (n = 0 /\ N = 1)
            /\ \A i, j \in 1..N :
                   i # j => ListingWrites[i].path # ListingWrites[j].path

\* a finished build of 2 * PAGE_SIZE + 1 documents, with three listing pages
C2_Witness ==
    /\ pc = "done"
    /\ Len(posts) = 2 * PAGE_SIZE + 1
    /\ Len(ListingWrites) = 3

\* C3: listing page k holds the documents at positions (k-1)*P .. k*P-1 of
\* the newest-first sequence, in that order, so that the pages read in
\* order give the whole sequence once
C3_ListingPageContent ==
    /\ \A k \in DOMAIN ListingWrites :
           LET shown == ListingWrites[k].context.posts
               lo    == (k - 1) * PAGE_SIZE
           IN  /\ ListingWrites[k].context.page = k
               /\ Len(shown) = Max(0, Min(PAGE_SIZE, Len(posts) - lo))
               /\ \A j \in DOMAIN shown :
                      /\ shown[j].title = posts[lo + j].title
                      /\ shown[j].date = posts[lo + j].date_str
                      /\ SubSeq(shown[j].url, Len(shown[j].url) - 2,
                                Len(shown[j].url))
                             = ArticleRoot(posts[lo + j].slug)
    /\ ListingDone =>
           \A i \in DOMAIN posts :
               \E k \in DOMAIN ListingWrites :
                   \E j \in DOMAIN ListingWrites[k].context.posts :
                       (k - 1) * PAGE_SIZE + j = i

\* a finished build whose second listing page is full and whose third is
\* not empty, over documents that the sort has reordered
C3_Witness ==
    /\ pc = "done"
    /\ Len(ListingWrites) = 3
    /\ Len(ListingWrites[2].context.posts) = PAGE_SIZE
    /\ Len(ListingWrites[3].context.posts) >= 1
    /\ \E i \in 1..(Len(posts) - 1) : posts[i].md > posts[i + 1].md

\* C4 as stated: every listing page, the single one included, carries
\* pagination metadata with its page number and the number of pages
C4_Original ==
    ListingDone =>
        \A k \in DOMAIN ListingWrites :
            LET pg == ListingWrites[k].context.pagination
            IN  /\ pg.t = "dict"
                /\ pg.current = k
                /\ pg.total = Len(ListingWrites)

\* C4 amended: when there are several listing pages each carries
\* pagination metadata with its page number and the number of pages; the
\* single listing page of a build with PAGE_SIZE documents or fewer carries
\* none
C4_PaginationWhenSeveral ==
    ListingDone =>
        \A k \in DOMAIN ListingWrites :
            LET pg == ListingWrites[k].context.pagination
            IN  IF Len(ListingWrites) > 1
                THEN /\ pg.t = "dict"
                     /\ pg.current = k
                     /\ pg.total = Len(ListingWrites)
                ELSE pg.t = "null"

\* a finished build with two listing pages
C4_Witness ==
    /\ pc = "done"
    /\ Len(ListingWrites) = 2
    /\ ListingWrites[2].context.pagination.t = "dict"

PrevAbsent(w) ==
    \/ w.context.pagination.t = "null"
    \/ w.context.pagination.prev_url.t = "null"

NextAbsent(w) ==
    \/ w.context.pagination.t = "null"
    \/ w.context.pagination.next_url.t = "null"

\* C5: on listing page k of N the previous-page link is absent exactly
\* when k = 1 and the next-page link exactly when k = N
C5_PrevNextLinks ==
    ListingDone =>
        \A k \in DOMAIN ListingWrites :
            /\ PrevAbsent(ListingWrites[k]) <=> (k = 1)
            /\ NextAbsent(ListingWrites[k]) <=> (k = Len(ListingWrites))

\* a finished build with a middle listing page, which has both links
C5_Witness ==
    /\ pc = "done"
    /\ Len(ListingWrites) = 3
    /\ ~PrevAbsent(ListingWrites[2])
    /\ ~NextAbsent(ListingWrites[2])

\* the header of the file is there and is not a key-value map
BadHeader(file) == file.delimited /\ file.yaml.t \notin {"dict", "null"}

\* C6: a file whose header cannot be parsed, or is not a key-value map,
\* does not abort the build
C6_BadHeaderTolerated ==
    pc = "aborted" => ~BadHeader(files[raised.at])

\* the file has no header marker, no title, or a title that is a blank text
NoTitleText(file) ==
    \/ ~file.delimited
    \/ file.yaml.t = "null"
    \/ /\ file.yaml.t = "dict"
       /\ \/ "title" \notin DOMAIN file.yaml.v
          \/ /\ file.yaml.v["title"].t = "str"
             /\ Strip(file.yaml.v["title"].v) = <<>>

\* the file has no usable title: no header marker, no title, or a title that
\* is empty, be it a blank text or no value at all ("title:" alone)
NoUsableTitle(file) ==
    \/ NoTitleText(file)
    \/ /\ file.yaml.t = "dict"
       /\ "title" \in DOMAIN file.yaml.v
       /\ file.yaml.v["title"].t = "null"

PostsOfFile(i) == {p \in DOMAIN posts : posts[p].md = i}

\* the sitemap entries of detail pages
ArticleEntries ==
    SelectSeq(pages_for_sitemap,
              LAMBDA e : Len(e[1]) = 4 /\ e[1][2] = <<"article">>)

\* the files Untitled holds of are skipped without error: no document,
\* detail page, index entry, sitemap entry or tag membership comes from
\* them, and every other file is still processed
SkippedWithoutError(Untitled(_)) ==
    /\ pc = "aborted" => ~Untitled(files[raised.at])
    /\ Loaded =>
           /\ \A i \in DOMAIN files :
                  IF Untitled(files[i])
                  THEN PostsOfFile(i) = {}
                  ELSE Cardinality(PostsOfFile(i)) = 1
           /\ {tag_map[k].slug : k \in DOMAIN tag_map}
                  = UNION {Range(TagsOf(files[i].yaml.v)) :
                             i \in {j \in DOMAIN files :
                                       ~Untitled(files[j])}}
    /\ pc = "done" =>
           LET titled == Cardinality({i \in DOMAIN files :
                                         ~Untitled(files[i])})
           IN  /\ Len(WritesOf("article.html")) = titled
               /\ Len(ArticleEntries) = titled
               /\ \E w \in Range(writes) :
                      /\ w.path = <<<<"data">>, <<"posts.json">>>>
                      /\ Len(w.context.posts) = titled

\* C7: a file with no usable title (no header marker, title absent, or
\* title empty) is skipped without error: no document, detail page, index
\* entry, sitemap entry or tag membership comes from it, and every other
\* file is still processed
C7_UntitledSkipped == SkippedWithoutError(NoUsableTitle)

\* what is skipped is exactly the files without a title text: a title
\* without a value is turned into the text "None" and published
TitleTextSkipped == SkippedWithoutError(NoTitleText)

\* the value is neither a date nor the ISO text of a day of the calendar
UnparseableDate(value) ==
    /\ value.t # "date"
    /\ Str(value) \notin {strftime_Ymd(d) : d \in 1..31}

\* the file has a title and a date value that cannot be parsed
TitledWithBadDate(file) ==
    /\ file.delimited
    /\ file.yaml.t = "dict"
    /\ ~NoUsableTitle(file)
    /\ "date" \in DOMAIN file.yaml.v
    /\ UnparseableDate(file.yaml.v["date"])

\* C8: when a titled document has an unparseable date the build stops
\* during loading: no date is substituted, and no page, data file, robots
\* file or sitemap is written
C8_BadDateAborts ==
    (\E i \in DOMAIN files : TitledWithBadDate(files[i])) =>
        /\ pc \in {"start", "load", "aborted"}
        /\ posts = <<>>
        /\ writes = <<>>
        /\ pages_for_sitemap = <<>>

\* a build stopped by the date of a file that follows a well-formed one
C8_Witness ==
    /\ pc = "aborted"
    /\ raised.error = "ValueError"
    /\ raised.at > 1
    /\ TitledWithBadDate(files[raised.at])
    /\ ~NoUsableTitle(files[1])
    /\ writes = <<>>

\* the text is made of a-z, 0-9 and '-' and has no '-' at either end
UrlSafe(text) ==
    /\ \A i \in DOMAIN text :
           text[i] \in Range(LowerChars) \cup Range(DigitChars) \cup {"-"}
    /\ text # <<>> => (text[1] # "-" /\ text[Len(text)] # "-")

\* C9: the identifier of every document is URL-safe, whether it comes from
\* the slug field, the title or the file name
C9_IdentifierUrlSafe ==
    Loaded => \A p \in DOMAIN posts : UrlSafe(posts[p].slug)

\* re.sub over a character class, as the description of slugify has it
RECURSIVE CollapseSpaces(_)
CollapseSpaces(text) ==
    IF text = <<>> THEN <<>>
    ELSE IF Head(text) \in WhitespaceChars
         THEN <<"-">> \o CollapseSpaces(LStripChars(text, WhitespaceChars))
         ELSE <<Head(text)>> \o CollapseSpaces(Tail(text))

\* slugify as described: lowercase, drop what is outside a-z, 0-9,
\* whitespace and '-', turn each whitespace run into one '-', collapse the
\* runs of '-', trim the '-' at both ends
SlugifyDescribed(text) ==
    StripChars(
        CollapseHyphens(CollapseSpaces(
            SelectSeq(Lower(text),
                      LAMBDA c : c \in Range(LowerChars) \cup Range(DigitChars)
                                       \cup WhitespaceChars \cup {"-"}))),
        {"-"})

\* C10: slugify returns the described slug, words separated by whitespace
\* coming out joined by single hyphens
C10_SlugifyAsDescribed ==
    pc = "slugified" => slug_out = SlugifyDescribed(slug_in)

NoDuplicates(seq) ==
    \A i, j \in DOMAIN seq : i # j => seq[i] # seq[j]

\* C11: the tag list of every document has no empty string and no
\* duplicate; raw tags that normalize to one slug give a single entry
C11_TagsNormalized ==
    Loaded =>
        \A p \in DOMAIN posts :
            /\ \A t \in DOMAIN posts[p].tags : posts[p].tags[t] # <<>>
            /\ NoDuplicates(posts[p].tags)

\* C12: the tag page of every tag lists each member document once, and the
\* count of the tag is the number of documents that carry it
C12_TagMembersOnce ==
    /\ Loaded =>
           \A k \in DOMAIN tag_map :
               /\ NoDuplicates(tag_map[k].posts)
               /\ tag_map[k].count =
                      Cardinality({p \in DOMAIN posts :
                          tag_map[k].slug \in Range(posts[p].tags)})
    /\ \A w \in Range(WritesOf("tag.html")) :
           LET carriers == {p \in DOMAIN posts :
                               w.path[2] \in Range(posts[p].tags)}
           IN  /\ Len(w.context.posts) = Cardinality(carriers)
               /\ w.context.tag.count = Cardinality(carriers)

\* C13: the identifiers of two distinct documents differ, so the build
\* writes one detail page file per document, at article/<identifier>/
C13_IdentifiersDistinct ==
    /\ Loaded =>
           \A p, q \in DOMAIN posts : p # q => posts[p].slug # posts[q].slug
    /\ pc = "done" =>
           /\ {w.path : w \in Range(WritesOf("article.html"))}
                  = {ArticleRoot(posts[p].slug) : p \in DOMAIN posts}
           /\ Cardinality({w.path : w \in Range(WritesOf("article.html"))})
                  = Len(posts)

\* the page files written by render
PageWrites ==
    SelectSeq(writes, LAMBDA w : w.template \notin {"json", "text", "xml"})

\* the urls of the sitemap.xml that was written
SitemapUrls ==
    LET w == CHOOSE x \in Range(writes) : x.path = <<<<"sitemap.xml">>>>
    IN  w.context.urls

\* the page file an absolute URL of the site designates: a URL that ends
\* with "/" designates the index.html of that directory
PageOfUrl(loc) ==
    LET segs == Tail(loc)
    IN  IF segs[Len(segs)] = <<>>
        THEN [segs EXCEPT ![Len(segs)] = <<"index.html">>]
        ELSE segs

\* C14: at the end of a build the sitemap entries and the page files
\* written are in one-to-one correspondence
C14_SitemapMatchesPages ==
    pc = "done" =>
        /\ \A i, j \in DOMAIN SitemapUrls :
               i # j => PageOfUrl(SitemapUrls[i].loc)
                            # PageOfUrl(SitemapUrls[j].loc)
        /\ {PageOfUrl(SitemapUrls[i].loc) : i \in DOMAIN SitemapUrls}
               = {w.path : w \in Range(PageWrites)}

\* the entries of the posts.json that was written
IndexEntries ==
    LET w == CHOOSE x \in Range(writes) :
                 x.path = <<<<"data">>, <<"posts.json">>>>
    IN  w.context.posts

\* the sitemap urls of detail pages
DetailUrls ==
    SelectSeq(SitemapUrls,
              LAMBDA u : Len(u.loc) = 4 /\ u.loc[2] = <<"article">>)

\* C15: the entries of posts.json and the detail-page urls of the sitemap
\* are in bijection: an entry of path article/<s>/index.html has exactly
\* one url <base>/article/<s>/, and such a url exactly one entry
C15_IndexMatchesSitemap ==
    pc = "done" =>
        /\ \A e \in DOMAIN IndexEntries :
               Cardinality({u \in DOMAIN DetailUrls :
                   PageOfUrl(DetailUrls[u].loc) = IndexEntries[e].path}) = 1
        /\ \A u \in DOMAIN DetailUrls :
               Cardinality({e \in DOMAIN IndexEntries :
                   IndexEntries[e].path = PageOfUrl(DetailUrls[u].loc)}) = 1

\* the tags in the order in which a pass over the documents, and over the
\* tags of each document, first meets them
RECURSIVE FirstSeenOrder(_, _, _)
FirstSeenOrder(p, t, seen) ==
    IF p > Len(posts) THEN seen
    ELSE IF t > Len(posts[p].tags) THEN FirstSeenOrder(p + 1, 1, seen)
    ELSE FirstSeenOrder(p, t + 1,
             IF posts[p].tags[t] \in Range(seen) THEN seen
             ELSE Append(seen, posts[p].tags[t]))

\* position of a tag in that order
FirstSeen(tag) ==
    LET order == FirstSeenOrder(1, 1, <<>>)
    IN  CHOOSE i \in DOMAIN order : order[i] = tag

\* C16: the ranked tag list is sorted by count descending, tags of equal
\* count standing in the order in which aggregation first met them; the
\* home page, the taxonomy index, tags.json and the tag pages follow it
C16_TagRanking ==
    /\ Loaded =>
           \A i \in 1..(Len(tags_sorted) - 1) :
               \/ tags_sorted[i].count > tags_sorted[i + 1].count
               \/ /\ tags_sorted[i].count = tags_sorted[i + 1].count
                  /\ FirstSeen(tags_sorted[i].slug)
                         < FirstSeen(tags_sorted[i + 1].slug)
    /\ \A w \in Range(writes) :
           /\ w.template \in {"index.html", "categories.html"} =>
                  /\ Len(w.context.tags) = Len(tags_sorted)
                  /\ \A i \in DOMAIN tags_sorted :
                         /\ w.context.tags[i].count = tags_sorted[i].count
                         /\ w.context.tags[i].label = tags_sorted[i].label
           /\ w.path = <<<<"data">>, <<"tags.json">>>> =>
                  [i \in DOMAIN w.context.tags |-> w.context.tags[i].tag]
                      = [i \in DOMAIN tags_sorted |-> tags_sorted[i].slug]
    /\ \A i \in DOMAIN WritesOf("tag.html") :
           WritesOf("tag.html")[i].path = TagRoot(tags_sorted[i].slug)

\* a finished build with two tags of equal count, and with a tag ranked
\* before one that aggregation met earlier
C16_Witness ==
    /\ pc = "done"
    /\ \E i \in 1..(Len(tags_sorted) - 1) :
           tags_sorted[i].count = tags_sorted[i + 1].count
    /\ \E i \in 1..(Len(tags_sorted) - 1) :
           FirstSeen(tags_sorted[i].slug) > FirstSeen(tags_sorted[i + 1].slug)

StrictlyIncreasing(seq) ==
    \A i \in 1..(Len(seq) - 1) : seq[i] < seq[i + 1]

\* C17: the member documents of every tag, as stored by build_tags and as
\* listed on its tag page, are a subsequence of the newest-first sequence
C17_MembersInDocumentOrder ==
    /\ Loaded =>
           \A k \in DOMAIN tag_map :
               /\ \A i \in DOMAIN tag_map[k].posts :
                      tag_map[k].posts[i] \in DOMAIN posts
               /\ StrictlyIncreasing(tag_map[k].posts)
    /\ \A w \in Range(WritesOf("tag.html")) :
           \E members \in {tag_map[k].posts : k \in DOMAIN tag_map} :
               /\ StrictlyIncreasing(members)
               /\ w.context.posts =
                      [i \in DOMAIN members |->
                          post_view(posts[members[i]], rel_root(w.path))]

\* C18: every tag of the tag map has at least one member, a count of at
\* least 1 that is the length of its member list, and the tags of the map
\* are exactly the tags carried by the loaded documents
C18_TagMapWellFormed ==
    Loaded =>
        /\ \A k \in DOMAIN tag_map :
               /\ Len(tag_map[k].posts) >= 1
               /\ tag_map[k].count >= 1
               /\ tag_map[k].count = Len(tag_map[k].posts)
               /\ \A i \in DOMAIN tag_map[k].posts :
                      /\ tag_map[k].posts[i] \in DOMAIN posts
                      /\ tag_map[k].slug
                             \in Range(posts[tag_map[k].posts[i]].tags)
        /\ \A k, l \in DOMAIN tag_map :
               k # l => tag_map[k].slug # tag_map[l].slug
        /\ {tag_map[k].slug : k \in DOMAIN tag_map}
               = UNION {Range(posts[p].tags) : p \in DOMAIN posts}

\* a loaded archive with a tag of several members, a document of two tags
\* and several tags
C18_Witness ==
    /\ Loaded
    /\ Len(tag_map) >= 3
    /\ \E k \in DOMAIN tag_map : tag_map[k].count >= 2
    /\ \E p \in DOMAIN posts : Len(posts[p].tags) = 2

\* C19: for a page at depth D, rel_root is "." when D = 0 and D times ".."
\* joined by "/" otherwise; rel_url is the target at depth 0 and the base,
\* "/" and the target otherwise ("assets" at depth 2: "../../assets")
C19_PathResolution ==
    pc = "resolved" =>
        LET D == Len(path_in) - 1 IN
        /\ D = 0 => (root_out = <<<<".">>>> /\ url_out = target_in)
        /\ D > 0 =>
               /\ Len(root_out) = D
               /\ \A i \in 1..D : root_out[i] = <<"..">>
               /\ Len(url_out) = D + Len(target_in)
               /\ \A i \in 1..D : url_out[i] = <<"..">>
               /\ \A i \in DOMAIN target_in : url_out[D + i] = target_in[i]
        /\ (D = 2 /\ target_in = <<<<"assets">>>>) =>
               url_out = <<<<"..">>, <<"..">>, <<"assets">>>>

\* "assets" resolved from a page two directories deep
C19_Witness ==
    /\ pc = "resolved"
    /\ Len(path_in) = 3
    /\ target_in = <<<<"assets">>>>
    /\ url_out = <<<<"..">>, <<"..">>, <<"assets">>>>

\* two sitemaps have the same urls and the same dates for detail pages
SameSitemap(a, b) ==
    /\ Len(a) = Len(b)
    /\ \A i \in DOMAIN a :
           /\ a[i].loc = b[i].loc
           /\ (Len(a[i].loc) = 4 /\ a[i].loc[2] = <<"article">>) =>
                  a[i].lastmod = b[i].lastmod

\* two builds wrote the same files with the same content, the dates of the
\* pages that are not detail pages in the sitemap left aside
SameOutput(a, b) ==
    /\ Len(a) = Len(b)
    /\ \A i \in DOMAIN a :
           /\ a[i].path = b[i].path
           /\ IF a[i].path = <<<<"sitemap.xml">>>>
              THEN SameSitemap(a[i].context.urls, b[i].context.urls)
              ELSE a[i] = b[i]

\* C20 as stated: two builds over the same source files, whatever their
\* days, write the same files but for the sitemap dates of the pages that
\* are not detail pages
C20_Original ==
    (pc = "done" /\ prev # <<>>) =>
        SameOutput(prev[Len(prev)].writes, writes)

\* every document of the directory has a date in its metadata
AllDated ==
    \A i \in DOMAIN files :
        NoUsableTitle(files[i]) \/ "date" \in DOMAIN files[i].yaml.v

\* C20 amended: the same, for source files in which every titled document
\* carries a date
C20_SameOutputWhenDated ==
    (pc = "done" /\ prev # <<>> /\ AllDated) =>
        SameOutput(prev[Len(prev)].writes, writes)

\* a second build finished a day after the first, over two dated
\* documents with tags
C20_Witness ==
    /\ pc = "done"
    /\ prev # <<>>
    /\ prev[Len(prev)].today # today
    /\ AllDated
    /\ Len(posts) >= 2
    /\ tag_map # <<>>
    /\ SameOutput(prev[Len(prev)].writes, writes)

(***************************************************************************)
(* Phases of one build.                                                    *)
(***************************************************************************)
\* the directories ensure_dirs makes
OutputDirs ==
    {<<"articles">>, <<"categories">>, <<"tag">>, <<"article">>, <<"data">>}

\* C21 as stated: every filesystem write of main comes after load_posts,
\* build_tags and the tag ranking; while they are being computed nothing
\* has been written to the filesystem, directories included
C21_Original ==
    (dirs # {} \/ writes # <<>>) => Loaded

\* C21, amended: every file written by main is written after the document
\* sequence, the tag map and the tag ranking have their final values; all
\* that main changes in the filesystem before that is the five output
\* directories ensure_dirs makes
C21_FilesAfterCompute ==
    /\ writes # <<>> =>
          /\ Loaded
          /\ posts = load_posts(files, Stems, today).posts
          /\ tag_map = build_tags(posts)
          /\ tags_sorted = TagsSorted(tag_map)
    /\ pc \in {"load", "aborted"} => writes = <<>> /\ dirs = OutputDirs
    /\ pc = "start" => writes = <<>> /\ dirs = {}

\* a build that is writing pages of a source set with documents and tags
C21_Witness ==
    /\ pc = "tag_pages"
    /\ writes # <<>>
    /\ Len(posts) >= 2
    /\ tags_sorted # <<>>

(***************************************************************************)
(* Failing builds.                                                         *)
(***************************************************************************)
\* the output paths of the pages in the order main renders them
PlannedPages ==
    <<<<<<"index.html">>>>>>
    \o [k \in 1..TotalPages(Len(posts)) |-> PageRoot(k)]
    \o <<<<<<"categories">>, <<"index.html">>>>, <<<<"chi-siamo.html">>>>>>
    \o [i \in DOMAIN tags_sorted |-> TagRoot(tags_sorted[i].slug)]
    \o [i \in DOMAIN posts |-> ArticleRoot(posts[i].slug)]

\* the output paths of the data files, in the order main writes them
PlannedData ==
    << <<<<"data">>, <<"posts.json">>>>, <<<<"data">>, <<"tags.json">>>>,
       <<<<"robots.txt">>>>, <<<<"sitemap.xml">>>> >>

Planned == PlannedPages \o PlannedData

\* the files written in full
CompleteWrites == SelectSeq(writes, LAMBDA w : w.template # "partial")

PathsOf(ws) == [i \in DOMAIN ws |-> ws[i].path]

\* C22: when render or write_file raises for the n-th file of the build
\* order, main ends there: the files written in full are exactly the n-1
\* before it, nothing after it exists, and when the failing file is a page
\* none of posts.json, tags.json, robots.txt and sitemap.xml exists; a
\* build that reaches its end has raised nothing and has written every
\* planned file in full; no step of main follows the failure
C22_FailFast ==
    /\ [](/\ pc = "failed" =>
               /\ raised.error # "none"
               /\ raised.at \in 1..Len(Planned)
               /\ PathsOf(CompleteWrites) = SubSeq(Planned, 1, raised.at - 1)
               /\ \A i \in DOMAIN writes :
                     /\ i <= raised.at
                     /\ writes[i].path = Planned[i]
                     /\ writes[i].template = "partial" => i = raised.at
               /\ raised.at <= Len(PlannedPages) =>
                     \A i \in DOMAIN writes :
                        writes[i].path \notin Range(PlannedData)
          /\ pc = "done" =>
               /\ raised = NoError
               /\ writes = CompleteWrites
               /\ PathsOf(writes) = Planned)
    /\ [][pc # "failed"]_vars

\* the render of a tag page has failed after other pages were written, in
\* a build with documents
C22_Witness ==
    /\ pc = "failed"
    /\ raised.at > 4
    /\ raised.at <= Len(PlannedPages)
    /\ Len(posts) >= 1
    /\ Len(CompleteWrites) >= 4

(***************************************************************************)
(* Reading time and summary.                                               *)
(***************************************************************************)
\* the number of words of a text: its maximal runs of word characters
WordCount(text) ==
    Cardinality({i \in 1..Len(text) :
                    /\ text[i] \in WordChars
                    /\ (i = 1 \/ text[i - 1] \notin WordChars)})

\* C23: the reading time of every document is max(3, round(W / 200)), W
\* being the number of words of its body; so it is at least 3, and 5 for a
\* body of 1000 words
C23_ReadTimeFromWords ==
    Loaded =>
        \A i \in DOMAIN posts :
            LET W == WordCount(files[posts[i].md].body)
            IN  /\ posts[i].read_time = Max(3, RoundDiv200(W))
                /\ posts[i].read_time >= 3
                /\ W = 1000 => posts[i].read_time = 5

\* position k of a rendered body lies inside a markup tag: between a "<"
\* and the first ">" after it, with something in between
InTag(text, k) ==
    \E i \in 1..k :
        /\ text[i] = "<"
        /\ \E j \in Max(k, i + 2)..Len(text) :
              text[j] = ">" /\ \A m \in (i + 1)..(j - 1) : text[m] # ">"

\* position k separates words: it is whitespace or part of a tag
Separator(text, k) == InTag(text, k) \/ text[k] \in WhitespaceChars

\* the positions at which a word of the stripped text begins
WordStarts(text) ==
    {k \in 1..Len(text) :
        ~Separator(text, k) /\ (k = 1 \/ Separator(text, k - 1))}

\* summary is made of the first min(32, n) words of the stripped text,
\* joined by single spaces: every character of these words stands in it,
\* in order, the r-th word after r - 1 spaces, and all its other
\* characters are these spaces
IsSummaryOf(summary, text) ==
    LET starts  == WordStarts(text)
        m       == Min(32, Cardinality(starts))
        rank(k) == Cardinality({u \in starts : u <= k})
        kept    == {k \in 1..Len(text) : ~Separator(text, k) /\ rank(k) <= m}
        idx(k)  == Cardinality({q \in kept : q <= k}) + rank(k) - 1
    IN  /\ Len(summary) = Cardinality(kept) + Max(m - 1, 0)
        /\ \A k \in kept : summary[idx(k)] = text[k]
        /\ \A q \in 1..Len(summary) :
              q \notin {idx(k) : k \in kept} => summary[q] = " "

\* the metadata of the file a post was made of
MetadataOf(post) == files[post.md].yaml.v

\* the metadata has no excerpt: the key is absent, or its value is blank,
\* be it a blank text or no value at all ("excerpt:" alone)
ExcerptAbsent(fm) ==
    \/ "excerpt" \notin DOMAIN fm
    \/ fm["excerpt"].t = "null"
    \/ fm["excerpt"].t = "str" /\ Strip(fm["excerpt"].v) = <<>>

ExcerptGiven(fm) ==
    /\ "excerpt" \in DOMAIN fm
    /\ fm["excerpt"].t = "str"
    /\ Strip(fm["excerpt"].v) # <<>>

\* C24: the summary of a document without an excerpt (absent or blank) is
\* the first min(32, n) words of its rendered body with the tags stripped,
\* joined by single spaces; the summary of a document with an excerpt is
\* that excerpt, whatever the body
C24_SummaryFromBody ==
    Loaded =>
        \A i \in DOMAIN posts :
            LET fm == MetadataOf(posts[i]) IN
            /\ ExcerptAbsent(fm) =>
                  IsSummaryOf(posts[i].excerpt, files[posts[i].md].html)
            /\ ExcerptGiven(fm) =>
                  posts[i].excerpt = fm["excerpt"].v

\* what the build does: the summary comes from the body when the excerpt is
\* absent or a blank text, a given excerpt is used without the whitespace
\* around it, and an excerpt without a value gives the summary "None"
SummaryAsBuilt ==
    Loaded =>
        \A i \in DOMAIN posts :
            LET fm == MetadataOf(posts[i]) IN
            /\ (ExcerptAbsent(fm) /\ "excerpt" \in DOMAIN fm
                    /\ fm["excerpt"].t = "null") =>
                  posts[i].excerpt = <<"N","o","n","e">>
            /\ (ExcerptAbsent(fm)
                    /\ ~("excerpt" \in DOMAIN fm /\ fm["excerpt"].t = "null")) =>
                  IsSummaryOf(posts[i].excerpt, files[posts[i].md].html)
            /\ ExcerptGiven(fm) =>
                  posts[i].excerpt = Strip(fm["excerpt"].v)

(***************************************************************************)
(* Sitemap dates, robots.txt.                                              *)
(***************************************************************************)
\* a sitemap entry of a detail page: its URL is <base>/article/<slug>/
IsDetailEntry(u) == Len(u.loc) = 4 /\ u.loc[2] = <<"article">>

\* C25: in the sitemap the entries of the detail pages carry, document by
\* document, the publish date of the document as YYYY-MM-DD (the date its
\* posts.json entry shows); every other entry (home page, listing pages,
\* taxonomy index, informational page, tag pages) carries the build date
C25_SitemapDates ==
    pc = "done" =>
        LET details == SelectSeq(SitemapUrls, IsDetailEntry) IN
        /\ Len(details) = Len(posts)
        /\ \A k \in DOMAIN details :
              /\ details[k].loc = AbsUrl(<<<<"article">>, posts[k].slug, <<>>>>)
              /\ details[k].lastmod = strftime_Ymd(posts[k].date)
              /\ details[k].lastmod = IndexEntries[k].date
        /\ \A i \in DOMAIN SitemapUrls :
              ~IsDetailEntry(SitemapUrls[i]) =>
                  SitemapUrls[i].lastmod = strftime_Ymd(today)
        /\ Len(SitemapUrls) - Len(details)
              = 3 + TotalPages(Len(posts)) + Len(tags_sorted)

\* a finished build whose sitemap has a tag page and a detail page of a
\* document published before the build day
C25_Witness ==
    /\ pc = "done"
    /\ tags_sorted # <<>>
    /\ \E u \in Range(SitemapUrls) :
          IsDetailEntry(u) /\ u.lastmod # strftime_Ymd(today)
    /\ \E u \in Range(SitemapUrls) :
          u.loc[2] = <<"tag">> /\ u.lastmod = strftime_Ymd(today)

\* the three lines the crawl policy is made of, each ended by a line break
RobotsLines ==
    <<"User-agent: *", "\n", "Allow: /", "\n", "Sitemap: ">>
    \o SITE_BASE \o <<"/sitemap.xml", "\n">>

\* C26: the robots.txt that main writes is three lines, each ended by a
\* line break: the user-agent line for all agents, the line allowing "/",
\* and the line pointing at <base URL>/sitemap.xml
C26_RobotsThreeLines ==
    \A i \in DOMAIN writes :
        writes[i].path = <<<<"robots.txt">>>> =>
            /\ writes[i].context.text = RobotsLines
            /\ Cardinality({k \in DOMAIN writes[i].context.text :
                               writes[i].context.text[k] = "\n"}) = 3

(***************************************************************************)
(* Links between the pages.                                                *)
(***************************************************************************)
\* the directory of an output path
DirOf(path) == SubSeq(path, 1, Len(path) - 1)

Escapes == <<<<"outside the site root">>>>

\* a relative link resolved against a directory of the site: ".." goes to
\* the parent directory, "." stays, any other segment goes down
RECURSIVE Resolve(_, _)
Resolve(dir, link) ==
    IF link = <<>> THEN dir
    ELSE IF Head(link) = <<"..">>
         THEN IF dir = <<>> THEN Escapes
              ELSE Resolve(DirOf(dir), Tail(link))
    ELSE IF Head(link) = <<".">> THEN Resolve(dir, Tail(link))
    ELSE Resolve(Append(dir, Head(link)), Tail(link))

\* a link without its fragment
WithoutFragment(link) ==
    [link EXCEPT ![Len(link)] = SelectSeq(@, LAMBDA c : c # "#contact")]

\* the paths of the files written so far
WrittenPaths == {w.path : w \in Range(writes)}

\* the link resolved from page w is the site file target, which exists
LeadsTo(w, link, target) ==
    /\ Resolve(DirOf(w.path), WithoutFragment(link)) = target
    /\ target \in WrittenPaths

\* the document links and tag links of a list of post views on page w lead
\* to the detail page of that document and to the pages of its tags
ViewsLead(w, views) ==
    \A i \in DOMAIN views :
        /\ \E a \in Range(WritesOf("article.html")) :
              /\ a.context.post.title = views[i].title
              /\ LeadsTo(w, views[i].url, a.path)
        /\ \A t \in DOMAIN views[i].tags :
              \E g \in Range(WritesOf("tag.html")) :
                  /\ g.context.tag.label = views[i].tags[t].label
                  /\ LeadsTo(w, views[i].tags[t].url, g.path)

\* the links of a ranked tag list on page w lead to the tag pages
TagLinksLead(w, links) ==
    \A i \in DOMAIN links :
        \E g \in Range(WritesOf("tag.html")) :
            /\ g.context.tag.label = links[i].label
            /\ LeadsTo(w, links[i].url, g.path)

\* the listing page number k
ListingPage(k) ==
    CHOOSE l \in Range(WritesOf("articles.html")) : l.context.page = k

\* C27: at the end of a build every link of every page, resolved against
\* the directory of the page, is the intended file of the site: the asset
\* base is assets, the navigation links are the home page, the listing
\* root, the taxonomy index and the informational page, a document link is
\* the detail page of that document, a tag link the page of that tag, the
\* previous link of listing page k is the file of listing page k - 1 and
\* its next link the file of listing page k + 1
C27_LinksResolve ==
    pc = "done" =>
        \A w \in Range(PageWrites) :
            /\ Resolve(DirOf(w.path), w.context.asset_base) = <<<<"assets">>>>
            /\ LeadsTo(w, w.context.nav_links.home, <<<<"index.html">>>>)
            /\ LeadsTo(w, w.context.nav_links.contact, <<<<"index.html">>>>)
            /\ LeadsTo(w, w.context.nav_links.articles,
                       <<<<"articles">>, <<"index.html">>>>)
            /\ LeadsTo(w, w.context.nav_links.categories,
                       <<<<"categories">>, <<"index.html">>>>)
            /\ LeadsTo(w, w.context.nav_links.about, <<<<"chi-siamo.html">>>>)
            /\ w.template = "index.html" =>
                  /\ ViewsLead(w, w.context.latest_posts)
                  /\ ViewsLead(w, w.context.trending_posts)
                  /\ TagLinksLead(w, w.context.tags)
            /\ w.template = "categories.html" =>
                  TagLinksLead(w, w.context.tags)
            /\ w.template = "tag.html" => ViewsLead(w, w.context.posts)
            /\ w.template = "article.html" =>
                  /\ ViewsLead(w, <<w.context.post>>)
                  /\ Resolve(DirOf(w.path), w.context.post.url) = w.path
            /\ w.template = "articles.html" =>
                  /\ ViewsLead(w, w.context.posts)
                  /\ w.context.pagination.t = "dict" =>
                        LET k == w.context.page
                            g == w.context.pagination
                        IN  /\ g.prev_url.t = "str" =>
                                  /\ k >= 2
                                  /\ LeadsTo(w, g.prev_url.v,
                                             ListingPage(k - 1).path)
                            /\ g.next_url.t = "str" =>
                                  LeadsTo(w, g.next_url.v,
                                          ListingPage(k + 1).path)
                            /\ k = 2 =>
                                  LeadsTo(w, g.prev_url.v,
                                          <<<<"articles">>, <<"index.html">>>>)

\* a finished build with three listing pages: page 2 has a previous and a
\* next link, and page 3 shows a tagged document
C27_Witness ==
    /\ pc = "done"
    /\ \E w \in Range(WritesOf("articles.html")) :
          /\ w.context.page = 2
          /\ w.context.pagination.prev_url.t = "str"
          /\ w.context.pagination.next_url.t = "str"
    /\ \E w \in Range(WritesOf("articles.html")) :
          /\ w.context.page = 3
          /\ w.context.posts # <<>>
          /\ w.context.posts[1].tags # <<>>

(***************************************************************************)
(* The output tree after several builds.                                   *)
(***************************************************************************)
\* the paths of the files in the output tree: those written by the
\* earlier builds and by this one
TreePaths ==
    WrittenPaths
    \cup UNION {{w.path : w \in Range(prev[b].writes)} : b \in DOMAIN prev}

\* a page file under article/, tag/ or articles/page/
IsKeyedPage(path) ==
    \/ path[1] \in {<<"article">>, <<"tag">>}
    \/ Len(path) = 4 /\ path[1] = <<"articles">> /\ path[2] = <<"page">>

\* the page files the sitemap of the build that just ended lists
ListedPages == {PageOfUrl(SitemapUrls[i].loc) : i \in DOMAIN SitemapUrls}

\* C28: after every build the page files in the output tree under
\* article/, tag/ and articles/page/ are exactly those the sitemap written
\* by that build lists
C28_NoStalePages ==
    pc = "done" =>
        {path \in TreePaths : IsKeyedPage(path)}
            = {path \in ListedPages : IsKeyedPage(path)}

\* every page the latest sitemap lists is in the tree (the other
\* direction of C28, which does hold)
ListedPagesExist ==
    pc = "done" => ListedPages \subseteq TreePaths

(***************************************************************************)
(* generate_daily.main: the attempt loop and the publication of the        *)
(* candidate it leaves.  The image file and the article page written on    *)
(* the way are kept by the day and the title their names are made of.      *)
(***************************************************************************)

\* what MAX_ATTEMPTS can be in the environment: unset, not a number, or an
\* integer
AttemptSettings ==
    {[t |-> "unset"], [t |-> "text"]}
        \cup {[t |-> "int", v |-> n] : n \in -1..MaxAttempts}

\* int(os.getenv("MAX_ATTEMPTS", "4")), 4 on ValueError
MaxAttemptsOf(env) == IF env.t = "int" THEN env.v ELSE 4

\* DRY_RUN is 'true' or not, and the groq package could be imported or not
DailyEnvs == [dry_run : BOOLEAN, groq : BOOLEAN]

\* the directories of generate_daily.ensure_dirs, in the order it makes them
DailyDirs == <<(<<"articles">>), (<<"assets", "images">>), (<<"data">>)>>

\* the first n of them
DirsMade(n) == {DailyDirs[i] : i \in 1..n}

\* the classes open() raises on a path that cannot be opened
OpenErrors == {"IsADirectoryError", "NotADirectoryError", "PermissionError",
               "FileNotFoundError", "OSError"}

\* what can end main outside the two services, by the place it happens at
\* and the class that leaves main there; made is the number of directories
\* ensure_dirs has made by then, left says whether the file at that place is
\* as it was ("untouched": open() or mkdir() raised) or has been created or
\* truncated and not completed ("partial": the write raised).
\*   load_dotenv: .env cannot be read or is not UTF-8.
\*   ensure_dirs: a file sits where a directory is to be (below a file at
\*     assets: NotADirectoryError), or mkdir fails otherwise.
\*   load_posts: posts.json cannot be opened, is not UTF-8 or not JSON.
\*   posts_shape: posts.json is JSON without a "posts" list (line 283);
\*   post_entries: its posts are no list of objects (too_similar, line 155).
\*   image_file, article_page, posts_json: the file cannot be opened, or it
\*     is opened, which truncates it, and the write fails; before
\*     posts.json is opened, append fails on posts that are no list (line
\*     340: AttributeError) and save_posts runs mkdir on data.
\*   template: it cannot be opened or is not UTF-8.
DailyFaults ==
    {[at |-> "load_dotenv", made |-> 0, error |-> e, left |-> "untouched"] :
        e \in {"PermissionError", "OSError", "UnicodeDecodeError"}}
    \cup {[at |-> "ensure_dirs", made |-> k, error |-> e, left |-> "untouched"] :
             k \in 0..2, e \in {"FileExistsError", "PermissionError", "OSError"}}
    \cup {[at |-> "ensure_dirs", made |-> 1, error |-> "NotADirectoryError",
           left |-> "untouched"]}
    \cup {[at |-> "load_posts", made |-> 3, error |-> e, left |-> "untouched"] :
             e \in (OpenErrors \ {"NotADirectoryError"})
                     \cup {"UnicodeDecodeError", "JSONDecodeError"}}
    \cup {[at |-> "posts_shape", made |-> 3, error |-> e, left |-> "untouched"] :
             e \in {"KeyError", "TypeError"}}
    \cup {[at |-> "post_entries", made |-> 3, error |-> e, left |-> "untouched"] :
             e \in {"AttributeError", "TypeError"}}
    \cup {[at |-> "template", made |-> 3, error |-> e, left |-> "untouched"] :
             e \in OpenErrors \cup {"UnicodeDecodeError"}}
    \cup {[at |-> f, made |-> 3, error |-> e, left |-> "untouched"] :
             f \in {"image_file", "article_page", "posts_json"},
             e \in OpenErrors}
    \cup {[at |-> "posts_json", made |-> 3, error |-> e, left |-> "untouched"] :
             e \in {"FileExistsError", "AttributeError"}}
    \cup {[at |-> f, made |-> 3, error |-> "OSError", left |-> "partial"] :
             f \in {"image_file", "article_page", "posts_json"}}
    \cup {[at |-> f, made |-> 3, error |-> "UnicodeEncodeError",
           left |-> "partial"] : f \in {"article_page", "posts_json"}}

\* a file main writes, complete or not: its name is made of the day and of
\* the slug of the title (of the topic when that slug is empty)
DailyFile(kind, complete) ==
    [file |-> kind, complete |-> complete, date |-> today,
     title |-> candidate.title, topic |-> candidate.topic]

\* the files main has written when it comes to a place
FilesBefore(place) ==
    CASE place = "image_file" -> <<>>
      [] place \in {"template", "article_page"} ->
             <<DailyFile("image_file", TRUE)>>
      [] OTHER -> <<DailyFile("image_file", TRUE),
                    DailyFile("article_page", TRUE)>>

\* results of pick_topic
Topics == {"Edge computing e IoT: trend del momento",
           "Data engineering e data pipelines: pattern avanzati"}

\* what the request of generate_article can come to: an error of the client,
\* a reply without choices, without content, with content that is no JSON,
\* that is a JSON list, whose sections are a number, one of whose headings
\* is null, or an object with or without a title
ArticleReplies ==
    {"api_error", "no_choices", "no_content", "not_json", "json_list",
     "sections_number", "null_heading", "titled", "untitled", "empty_object"}

\* the class generate_article raises on a reply, "none" when it returns
ArticleError(reply) ==
    CASE reply = "api_error" -> "APIError"
      [] reply = "no_choices" -> "IndexError"
      [] reply = "no_content" -> "TypeError"
      [] reply = "not_json" -> "JSONDecodeError"
      [] reply = "json_list" -> "AttributeError"
      [] reply = "sections_number" -> "TypeError"
      [] reply = "null_heading" -> "AttributeError"
      [] OTHER -> "none"

\* the dict generate_article returns, by the keys main reads; a text is the
\* sequence of its parts
ArticleOf(reply, topic) ==
    CASE reply = "dry_run" ->
             ("title" :> <<topic, " - guida rapida">>
                  @@ "summary" :> <<"Una panoramica pratica su ", topic, ".">>)
      [] reply = "titled" ->
             ("title" :> <<"Guida">> @@ "summary" :> <<"Sommario">>)
      [] reply = "untitled" -> ("summary" :> <<"Sommario">>)
      [] OTHER -> [k \in {} |-> <<>>]

\* the replies generate_article can meet: none is asked for under DRY_RUN
RepliesFor(env) == IF env.dry_run THEN {"dry_run"} ELSE ArticleReplies

\* what the request of generate_image can come to
ImageReplies ==
    {"no_url", "unreachable", "timeout", "http_error", "image", "not_json",
     "b64", "bad_b64", "unknown_format", "url", "url_http_error"}

\* the class generate_image raises on a reply, "none" when it returns
ImageError(reply) ==
    CASE reply = "no_url" -> "RuntimeError"
      [] reply = "unreachable" -> "ConnectionError"
      [] reply = "timeout" -> "Timeout"
      [] reply = "http_error" -> "HTTPError"
      [] reply = "not_json" -> "RuntimeError"
      [] reply = "bad_b64" -> "binascii.Error"
      [] reply = "unknown_format" -> "RuntimeError"
      [] reply = "url_http_error" -> "HTTPError"
      [] OTHER -> "none"

\* the replies generate_image can meet: a fixed picture under DRY_RUN
ImageRepliesFor(env) == IF env.dry_run THEN {"image"} ELSE ImageReplies

\* posts.json before the run
ArchiveInputs ==
    {<<>>,
     <<[title |-> "", summary |-> ""]>>,
     <<[title |-> "Guida", summary |-> "Sommario"]>>}

\* the texts too_similar compares the candidate with
ArchiveTexts(existing) ==
    {i \in DOMAIN existing : existing[i].title # "" \/ existing[i].summary # ""}

\* too_similar: False when there is nothing to compare with, otherwise the
\* verdict of the similarity measure
TooSimilarVerdicts(existing) ==
    IF ArchiveTexts(existing) = {} THEN {FALSE} ELSE BOOLEAN

\* the names the loop binds
Candidate(topic, article, similar, last) ==
    [bound |-> TRUE,
     topic |-> topic,
     article |-> article,
     title |-> [text |-> Get(article, "title", <<topic>>),
                suffix |-> IF similar /\ last THEN <<today>> ELSE <<>>],
     summary |-> Get(article, "summary", <<>>)]

post_record ==
    [title |-> candidate.title,
     summary |-> candidate.summary,
     date |-> today,
     topic |-> candidate.topic]

InitDaily ==
    /\ files = <<>>
    /\ today \in BuildDays
    /\ pc = "daily_start"
    /\ raised = NoError
    /\ dirs = {}
    /\ posts = <<>>
    /\ tag_map = <<>>
    /\ tags_sorted = <<>>
    /\ page = 0
    /\ writes = <<>>
    /\ pages_for_sitemap = <<>>
    /\ slug_in = <<>>
    /\ slug_out = <<>>
    /\ prev = <<>>
    /\ path_in = <<>>
    /\ target_in = <<>>
    /\ root_out = <<>>
    /\ url_out = <<>>
    /\ daily_env \in DailyEnvs
    /\ archive \in ArchiveInputs
    /\ max_attempts = 0
    /\ attempt = 0
    /\ calls = <<>>
    /\ candidate = Unbound
    /\ appended = <<>>
    /\ InstagramIdle

\* get_groq_client returns a client: the dummy one under DRY_RUN, otherwise
\* one of the groq package
ClientReady == daily_env.dry_run \/ daily_env.groq

\* main up to the loop: the directories are made, posts.json is loaded, the
\* client is made, MAX_ATTEMPTS is read and range(1, max_attempts + 1) is
\* entered, or skipped when it is empty
DailyStart ==
    /\ pc = "daily_start"
    /\ ClientReady
    /\ dirs' = DirsMade(3)
    /\ \E env \in AttemptSettings :
          /\ max_attempts' = MaxAttemptsOf(env)
          /\ pc' = IF MaxAttemptsOf(env) >= 1 THEN "daily_loop"
                   ELSE "daily_publish"
    /\ UNCHANGED <<files, today, raised, posts, tag_map, tags_sorted,
                   page, writes, pages_for_sitemap, slug_in, slug_out, prev,
                   relVars, daily_env, archive, attempt, calls, candidate,
                   appended, igVars>>

\* get_groq_client raises: the groq package is missing and DRY_RUN is not
\* 'true'; the directories are made by then, MAX_ATTEMPTS is not read
DailyClientFails ==
    /\ pc = "daily_start"
    /\ ~ClientReady
    /\ dirs' = DirsMade(3)
    /\ raised' = [error |-> "RuntimeError", at |-> 0]
    /\ pc' = "daily_crashed"
    /\ UNCHANGED <<files, today, posts, tag_map, tags_sorted,
                   page, writes, pages_for_sitemap, slug_in, slug_out, prev,
                   relVars, dailyVars, igVars>>

\* load_dotenv, ensure_dirs or load_posts raises: main ends before the
\* client is made, with the directories made so far
DailyLoadFails ==
    /\ pc = "daily_start"
    /\ \E fault \in DailyFaults :
          /\ fault.at \in {"load_dotenv", "ensure_dirs", "load_posts"}
          /\ dirs' = DirsMade(fault.made)
          /\ raised' = [error |-> fault.error, at |-> 0]
    /\ pc' = "daily_crashed"
    /\ UNCHANGED <<files, today, posts, tag_map, tags_sorted,
                   page, writes, pages_for_sitemap, slug_in, slug_out, prev,
                   relVars, dailyVars, igVars>>

\* posts.json was loaded but is not what main takes it for: posts["posts"]
\* raises at the head of the first pass, before any call, or too_similar
\* raises on the entries after the first call
DailyArchiveFails ==
    /\ pc = "daily_loop"
    /\ attempt = 0
    /\ \E fault \in DailyFaults :
          \/ /\ fault.at = "posts_shape"
             /\ raised' = [error |-> fault.error, at |-> 1]
             /\ UNCHANGED <<calls, candidate>>
          \/ /\ fault.at = "post_entries"
             /\ raised' = [error |-> fault.error, at |-> 1]
             /\ \E topic \in Topics, reply \in RepliesFor(daily_env) :
                   /\ ArticleError(reply) = "none"
                   /\ calls' = Append(calls,
                          [topic |-> topic, outcome |-> "raised"])
                   /\ candidate' = Candidate(topic, ArticleOf(reply, topic),
                                             FALSE, FALSE)
    /\ attempt' = 1
    /\ pc' = "daily_crashed"
    /\ UNCHANGED <<files, today, dirs, posts, tag_map, tags_sorted,
                   page, writes, pages_for_sitemap, slug_in, slug_out, prev,
                   relVars, daily_env, archive, max_attempts, appended,
                   igVars>>

\* one pass of the loop
DailyAttempt ==
    /\ pc = "daily_loop"
    /\ attempt < max_attempts
    /\ \E topic \in Topics, reply \in RepliesFor(daily_env),
          similar \in TooSimilarVerdicts(archive) :
          /\ ArticleError(reply) = "none"
          /\ attempt' = attempt + 1
          /\ calls' = Append(calls,
                 [topic |-> topic,
                  outcome |-> IF similar THEN "rejected" ELSE "accepted"])
          /\ candidate' = Candidate(topic, ArticleOf(reply, topic), similar,
                                    attempt + 1 = max_attempts)
          /\ pc' = IF ~similar \/ attempt + 1 = max_attempts
                   THEN "daily_publish" ELSE "daily_loop"
    /\ UNCHANGED <<files, today, raised, dirs, posts, tag_map, tags_sorted,
                   page, writes, pages_for_sitemap, slug_in, slug_out, prev,
                   relVars, daily_env, archive, max_attempts, appended,
                   igVars>>

\* generate_article raises inside the loop, after pick_topic has bound the
\* topic: main ends there
DailyArticleFails ==
    /\ pc = "daily_loop"
    /\ attempt < max_attempts
    /\ \E topic \in Topics, reply \in RepliesFor(daily_env) :
          /\ ArticleError(reply) # "none"
          /\ attempt' = attempt + 1
          /\ calls' = Append(calls, [topic |-> topic, outcome |-> "raised"])
          /\ candidate' = IF candidate.bound
                          THEN [candidate EXCEPT !.topic = topic]
                          ELSE candidate
          /\ raised' = [error |-> ArticleError(reply), at |-> attempt + 1]
          /\ pc' = "daily_crashed"
    /\ UNCHANGED <<files, today, dirs, posts, tag_map, tags_sorted,
                   page, writes, pages_for_sitemap, slug_in, slug_out, prev,
                   relVars, daily_env, archive, max_attempts, appended,
                   igVars>>

\* generate_image(topic) raises: an unbound name when the loop bound none,
\* otherwise what generate_image makes of the reply of the image service
DailyImageFails ==
    /\ pc = "daily_publish"
    /\ \E error \in IF candidate.bound
                    THEN {ImageError(reply) :
                             reply \in ImageRepliesFor(daily_env)} \ {"none"}
                    ELSE {"UnboundLocalError"} :
          raised' = [error |-> error, at |-> attempt]
    /\ pc' = "daily_crashed"
    /\ UNCHANGED <<files, today, dirs, posts, tag_map, tags_sorted,
                   page, writes, pages_for_sitemap, slug_in, slug_out, prev,
                   relVars, dailyVars, igVars>>

\* the image is there, but the image file, the template, the article page
\* or posts.json cannot be opened, read or written: main ends with the
\* files written so far, the failing one left as it was or incomplete, and
\* no record appended
DailyFileFails ==
    /\ pc = "daily_publish"
    /\ candidate.bound
    /\ \E reply \in ImageRepliesFor(daily_env) : ImageError(reply) = "none"
    /\ \E fault \in DailyFaults :
          /\ fault.at \in {"image_file", "template", "article_page",
                          "posts_json"}
          /\ writes' = FilesBefore(fault.at)
                 \o IF fault.left = "partial"
                    THEN <<DailyFile(fault.at, FALSE)>> ELSE <<>>
          /\ raised' = [error |-> fault.error, at |-> attempt]
    /\ pc' = "daily_crashed"
    /\ UNCHANGED <<files, today, dirs, posts, tag_map, tags_sorted,
                   page, pages_for_sitemap, slug_in, slug_out, prev,
                   relVars, dailyVars, igVars>>

\* the rest of main: the record of the candidate is appended and saved
DailyPublish ==
    /\ pc = "daily_publish"
    /\ candidate.bound
    /\ \E reply \in ImageRepliesFor(daily_env) : ImageError(reply) = "none"
    /\ writes' = <<DailyFile("image_file", TRUE),
                    DailyFile("article_page", TRUE),
                    DailyFile("posts_json", TRUE)>>
    /\ appended' = Append(appended, post_record)
    /\ pc' = "daily_done"
    /\ UNCHANGED <<files, today, raised, dirs, posts, tag_map, tags_sorted,
                   page, pages_for_sitemap, slug_in, slug_out, prev,
                   relVars, daily_env, archive, max_attempts, attempt, calls,
                   candidate, igVars>>

NextDaily ==
    \/ DailyStart
    \/ DailyClientFails
    \/ DailyLoadFails
    \/ DailyArchiveFails
    \/ DailyAttempt
    \/ DailyArticleFails
    \/ DailyImageFails
    \/ DailyFileFails
    \/ DailyPublish

SpecDaily == InitDaily /\ [][NextDaily]_vars

\* C29: generate_daily.main, whatever integer MAX_ATTEMPTS is, calls
\* generate_article at least once and at most MAX_ATTEMPTS times, stops
\* right after the first candidate too_similar does not reject, leaves a
\* candidate bound for the publishing steps (no run ends on an unbound
\* name), and a run that neither a service nor the filesystem interrupts
\* appends exactly one record, whose title carries the date suffix once when
\* every attempt was rejected and not otherwise.
C29_OneRecordPerRun ==
    /\ pc \in {"daily_publish", "daily_done"} =>
          /\ Len(calls) >= 1
          /\ Len(calls) <= max_attempts
          /\ candidate.bound
    /\ pc \in {"daily_loop", "daily_publish", "daily_done", "daily_crashed"} =>
          \A i \in DOMAIN calls :
              calls[i].outcome = "accepted" => i = Len(calls)
    /\ pc = "daily_crashed" => raised.error # "UnboundLocalError"
    /\ pc = "daily_done" =>
          /\ Len(appended) = 1
          /\ appended[1].topic = calls[Len(calls)].topic
          /\ appended[1].title.suffix =
                 IF \A i \in DOMAIN calls : calls[i].outcome = "rejected"
                 THEN <<today>> ELSE <<>>
    /\ pc \in {"daily_start", "daily_loop", "daily_publish", "daily_crashed"} =>
          appended = <<>>

\* the same for the runs whose limit is at least one
OneRecordWhenPositive ==
    (pc # "daily_start" /\ max_attempts >= 1) => C29_OneRecordPerRun

(***************************************************************************)
(* generate_instagram.publish_to_instagram: the three requests to the      *)
(* Graph API and what the call returns.                                    *)
(***************************************************************************)

Credentials == {"INSTAGRAM_ACCESS_TOKEN", "INSTAGRAM_BUSINESS_ACCOUNT_ID"}

\* what response.json() can give: no JSON at all, null, a list, or an
\* object; keys are the members of the list or the keys of the object
Bodies ==
    {[t |-> "invalid", keys |-> {}, id |-> ""],
     [t |-> "null", keys |-> {}, id |-> ""],
     [t |-> "list", keys |-> {"id"}, id |-> ""]}
        \cup {[t |-> "dict", keys |-> ks, id |-> ""] :
                 ks \in SUBSET {"error", "permalink"}}
        \cup {[t |-> "dict", keys |-> ks \cup {"id"}, id |-> id] :
                 ks \in SUBSET {"error"}, id \in {"17", "18"}}

StatusCodes == {200, 400, 500}

\* what a request can come to: one of the exceptions of requests, or a
\* response
Responses ==
    {[t |-> e, status |-> 0, body |-> [t |-> "invalid", keys |-> {}, id |-> ""]] :
        e \in {"Timeout", "ConnectionError", "Exception"}}
        \cup {[t |-> "response", status |-> s, body |-> b] :
                 s \in StatusCodes, b \in Bodies}

\* the except clause a request that raised ends in
ExceptClause(r) ==
    IF r.t = "Timeout" THEN "timeout"
    ELSE IF r.t = "ConnectionError" THEN "connection"
    ELSE "unexpected"

\* step 1 after the request: "proceed" when the container was created,
\* otherwise the way the call returns False
ContainerVerdictLenient(r) ==
    IF r.t # "response" THEN ExceptClause(r)
    ELSE IF r.status # 200 THEN "status"
    ELSE IF r.body.t \in {"invalid", "null"} THEN "unexpected"
    ELSE IF "id" \notin r.body.keys THEN "api_error"
    ELSE IF r.body.t # "dict" THEN "unexpected"
    ELSE "proceed"

ContainerVerdict(r) ==
    IF r.t # "response" THEN ExceptClause(r)
    ELSE IF r.status # 200 THEN "status"
    ELSE IF r.body.t \in {"invalid", "null"} THEN "unexpected"
    ELSE IF "error" \in r.body.keys \/ "id" \notin r.body.keys THEN "api_error"
    ELSE IF r.body.t # "dict" THEN "unexpected"
    ELSE "proceed"

\* step 2 after the request
PublishVerdict(r) ==
    IF r.t # "response" THEN ExceptClause(r)
    ELSE IF r.status # 200 THEN "status"
    ELSE IF r.body.t \in {"invalid", "null"} THEN "unexpected"
    ELSE IF "id" \notin r.body.keys THEN "no_id"
    ELSE IF r.body.t # "dict" THEN "unexpected"
    ELSE "proceed"

Returned(value, via) == [returned |-> TRUE, value |-> value, via |-> via]

InitInstagram ==
    /\ files = <<>>
    /\ today \in BuildDays
    /\ pc = "ig_start"
    /\ raised = NoError
    /\ dirs = {}
    /\ posts = <<>>
    /\ tag_map = <<>>
    /\ tags_sorted = <<>>
    /\ page = 0
    /\ writes = <<>>
    /\ pages_for_sitemap = <<>>
    /\ slug_in = <<>>
    /\ slug_out = <<>>
    /\ prev = <<>>
    /\ path_in = <<>>
    /\ target_in = <<>>
    /\ root_out = <<>>
    /\ url_out = <<>>
    /\ DailyIdle
    /\ ig_env \in SUBSET Credentials
    /\ sent = <<>>
    /\ received = <<>>
    /\ ig_result = NotReturned

\* the credentials are read; without both the call returns False
CheckCredentials ==
    /\ pc = "ig_start"
    /\ IF ig_env = Credentials
       THEN /\ pc' = "ig_container"
            /\ UNCHANGED ig_result
       ELSE /\ pc' = "ig_returned"
            /\ ig_result' = Returned(FALSE, "credentials")
    /\ UNCHANGED <<files, today, raised, dirs, posts, tag_map, tags_sorted,
                   page, writes, pages_for_sitemap, slug_in, slug_out, prev,
                   relVars, dailyVars, ig_env, sent, received>>

\* step 1: the media container
CreateContainer ==
    /\ pc = "ig_container"
    /\ sent' = Append(sent, [endpoint |-> "media", id |-> ""])
    /\ \E r \in Responses :
          /\ received' = Append(received, r)
          /\ IF ContainerVerdict(r) = "proceed"
             THEN /\ pc' = "ig_publish"
                  /\ UNCHANGED ig_result
             ELSE /\ pc' = "ig_returned"
                  /\ ig_result' = Returned(FALSE, ContainerVerdict(r))
    /\ UNCHANGED <<files, today, raised, dirs, posts, tag_map, tags_sorted,
                   page, writes, pages_for_sitemap, slug_in, slug_out, prev,
                   relVars, dailyVars, ig_env>>

\* step 2: the container is published, creation_id being result['id']
PublishMedia ==
    /\ pc = "ig_publish"
    /\ sent' = Append(sent, [endpoint |-> "media_publish",
                             id |-> received[Len(received)].body.id])
    /\ \E r \in Responses :
          /\ received' = Append(received, r)
          /\ IF PublishVerdict(r) = "proceed"
             THEN /\ pc' = "ig_permalink"
                  /\ UNCHANGED ig_result
             ELSE /\ pc' = "ig_returned"
                  /\ ig_result' = Returned(FALSE, PublishVerdict(r))
    /\ UNCHANGED <<files, today, raised, dirs, posts, tag_map, tags_sorted,
                   page, writes, pages_for_sitemap, slug_in, slug_out, prev,
                   relVars, dailyVars, ig_env>>

\* step 3: the permalink of the post is asked for, whatever comes of it is
\* dropped, and the call returns True
FetchPermalink ==
    /\ pc = "ig_permalink"
    /\ sent' = Append(sent, [endpoint |-> "permalink",
                             id |-> received[Len(received)].body.id])
    /\ \E r \in Responses : received' = Append(received, r)
    /\ pc' = "ig_returned"
    /\ ig_result' = Returned(TRUE, "published")
    /\ UNCHANGED <<files, today, raised, dirs, posts, tag_map, tags_sorted,
                   page, writes, pages_for_sitemap, slug_in, slug_out, prev,
                   relVars, dailyVars, ig_env>>

NextInstagram ==
    \/ CheckCredentials
    \/ CreateContainer
    \/ PublishMedia
    \/ FetchPermalink

SpecInstagram == InitInstagram /\ [][NextInstagram]_vars

\* a request that timed out, raised, was answered with another status than
\* 200 or with a body that is no JSON
RequestFailed(r) ==
    \/ r.t # "response"
    \/ r.status # 200
    \/ r.body.t = "invalid"

\* the answer names an id and no error
NamesId(r) ==
    /\ r.t = "response"
    /\ r.body.t = "dict"
    /\ "id" \in r.body.keys

\* the part of the claim about the two publishing requests
PublishingDiscipline ==
    /\ \A i \in DOMAIN sent :
          sent[i].endpoint = "media_publish" =>
              /\ i = 2
              /\ sent[1].endpoint = "media"
              /\ ~RequestFailed(received[1])
              /\ NamesId(received[1])
              /\ "error" \notin received[1].body.keys
              /\ sent[i].id = received[1].body.id
    /\ (ig_result.returned /\ ig_result.value) =>
          /\ Len(received) >= 2
          /\ ~RequestFailed(received[1])
          /\ ~RequestFailed(received[2])
          /\ NamesId(received[2])
    /\ raised = NoError
    /\ pc = "ig_returned" => ig_result.returned
    /\ (pc = "ig_returned" /\ ig_env # Credentials) =>
          ~ig_result.value /\ sent = <<>>

\* C30 as stated: the media_publish request is sent only after the container
\* request returned 200 with an id and no error, with that id as
\* creation_id; True is returned only if both requests succeeded and the
\* publish response carries an id; any request that fails, times out or
\* raises makes the call return False; the call never raises.
C30_Original ==
    /\ PublishingDiscipline
    /\ pc = "ig_returned" =>
          ((\E i \in DOMAIN received : RequestFailed(received[i]))
              => ~ig_result.value)

\* C30: as above, but only a failure of the container request or of the
\* media_publish request makes the call return False; what becomes of the
\* permalink request after a successful publication is ignored and the call
\* returns True.
C30_PublishAfterContainer ==
    /\ PublishingDiscipline
    /\ pc = "ig_returned" =>
          /\ (\E i \in DOMAIN received : i <= 2 /\ RequestFailed(received[i]))
                 => ~ig_result.value
          /\ (Len(received) = 3) => ig_result.value

\* a publication whose permalink request timed out
C30_Witness ==
    /\ pc = "ig_returned"
    /\ ig_result.returned
    /\ ig_result.value
    /\ Len(sent) = 3
    /\ sent[2].endpoint = "media_publish"
    /\ sent[2].id = "18"
    /\ received[3].t = "Timeout"

====
